---- MODULE Spec2Model ----
(***************************************************************************)
(* Step sequencers of the supriya_demos repository.                        *)
(*                                                                         *)
(* Part I   - the drum machine: src/midi_drum_sequencer/drum_machine.py    *)
(*            (variant "class") and the earlier script                     *)
(*            src/midi_drum_sequencer/midi_drum_sequencer.py (variant      *)
(*            "script").  Three threads: the keyboard command loop, the    *)
(*            MIDI listener and the clock thread that runs the playback    *)
(*            callback.                                                    *)
(*                                                                         *)
(* Times are floats in the source.  Every time the programs compute is a   *)
(* product k * delta with k in 0..15 and delta the float of n/d or         *)
(* (n/d)*(2/3); for the quantizations used here two such floats are equal  *)
(* exactly when the rationals are, so a time is modelled as an integer     *)
(* count of 1/384 whole notes.                                             *)
(*                                                                         *)
(* Part II  - the multi-instrument sequencer: src/sampler_sequencer        *)
(*            (sequencer.py, track.py) on src/class_lib/base_sequencer.py. *)
(*            sequencer.py passes group= and recording_bus= to Track and   *)
(*            message= to Track.handle_midi_message, names track.py does   *)
(*            not declare; the model follows the bodies of the methods as  *)
(*            written, with the calls bound to the parameters meant.       *)
(*                                                                         *)
(* Part III - the sampler studio: src/sampler (sequencer.py,               *)
(*            supriya_studio.py, mixer.py).  Its track.py is not among the *)
(*            sources; a Track is modelled by what the specification says  *)
(*            of a step map.                                               *)
(*                                                                         *)
(* Part IV  - one Track of src/sampler_sequencer/track.py as the MIDI       *)
(*            thread, the menu thread and the clock thread use it at the   *)
(*            same time.  No method takes a lock; a step of the model is   *)
(*            one operation the interpreter runs undivided: a call, a dict *)
(*            subscript or get, a list append, one turn of a for loop.     *)
(*            An exception that leaves a callback ends it, and the clock   *)
(*            does not queue it again.                                     *)
(*                                                                         *)
(* Part V   - the clock arpeggiator: src/arpeggiator_clock/                *)
(*            arpeggiator_clock.py.  The main thread converts the          *)
(*            quantization, cues the callback and waits on a Future; the   *)
(*            clock thread runs the callback.  Here the converted delta is *)
(*            kept as the float the program gets: fractions.Fraction is    *)
(*            exact and float() rounds it to the nearest IEEE-754 double   *)
(*            (53-bit significand, ties to even).                          *)
(*                                                                         *)
(* The supriya Clock is not part of the repository.  It is modelled by     *)
(* what its interface promises: cue queues a callback and returns its id,  *)
(* a callback returning a positive delta is queued again with the next     *)
(* invocation index, cancel removes the callback of an id and does nothing *)
(* for an id that is not queued.                                           *)
(***************************************************************************)
EXTENDS Integers, Sequences, FiniteSets, TLC

\* ------------------------------------------------------------------ bounds
MaxNotes == 2          \* recorded messages held by one step map
MaxEvents == 2         \* callbacks cued on one clock during a run
MaxInvocations == 3    \* invocation count up to which a callback is run
MaxTrackNotes == 1     \* recorded notes held by the Track objects together
MaxTracks == 3         \* Track objects alive at one time
MaxCues == 4           \* callbacks cued on the sequencer's clock during a run
MaxNumerator == 3      \* numerators n of the tokens n/d converted
MaxDenominator == 16   \* denominators d of the tokens n/d converted
MaxRepetitions == 2    \* --repetitions of the clock arpeggiator
MaxTokenLength == 4    \* characters of the strings given to the converter
MaxSynths == 4         \* synths the MIDI synth starts during a run

\* --------------------------------------------------------- program constants
SEQUENCER_STEPS == 16

\* One whole note, in model time units (384 = lcm of 128 and 3 * 32).
Unit == 3 * 128

\* The callback's default `delta=0.0625` of the script variant.
DefaultDelta == Unit \div 16

None == << >>
Some(x) == << x >>

\* ----------------------------------------------------- quantization tokens
\* A token is the sequence of its characters.
Tok_1_16 == << "1", "/", "1", "6" >>
Tok_1_8 == << "1", "/", "8" >>
Tok_1_8T == << "1", "/", "8", "T" >>
Tok_1_4 == << "1", "/", "4" >>

\* Tokens the drum machine is started with.
Quantizations == { Tok_1_16, Tok_1_8T }

DigitValue(c) ==
    CASE c = "0" -> 0 [] c = "1" -> 1 [] c = "2" -> 2 [] c = "3" -> 3
      [] c = "4" -> 4 [] c = "5" -> 5 [] c = "6" -> 6 [] c = "7" -> 7
      [] c = "8" -> 8 [] c = "9" -> 9

RECURSIVE ParseInt(_)
ParseInt(s) ==
    IF s = << >> THEN 0
    ELSE ParseInt(SubSeq(s, 1, Len(s) - 1)) * 10 + DigitValue(s[Len(s)])

\* quantization.replace("T", "")
RemoveT(s) == SelectSeq(s, LAMBDA c : c # "T")

\* "T" in quantization
HasT(s) == \E i \in 1..Len(s) : s[i] = "T"

SlashAt(s) == CHOOSE i \in 1..Len(s) : s[i] = "/"

\* fractions.Fraction("n/d"), times 2/3 for a triplet, as a float; in Units.
QuantizationToBeats(quantization) ==
    LET f == RemoveT(quantization)
        n == ParseInt(SubSeq(f, 1, SlashAt(f) - 1))
        d == ParseInt(SubSeq(f, SlashAt(f) + 1, Len(f)))
    IN  IF HasT(quantization)
        THEN (Unit * n * 2) \div (d * 3)
        ELSE (Unit * n) \div d

\* ------------------------------------------------------------- MIDI input
\* 1 and 17 share step 1; 0 is step 0.
Pitches == { 0, 1, 17 }

\* The notes played in a recording of the multi-instrument sequencer.
RecordPitches == { 1, 17 }

\* The pads played on the drum machine: step 0 and step 1.
DrumPitches == { 0, 17 }
MessageTypes == { "note_on", "note_off", "control_change", "program_change" }

Message(type, note) == [type |-> type, note |-> note, time |-> 0]

\* message.copy(time=t)
CopyWithTime(message, t) == [message EXCEPT !.time = t]

\* =================================================================== state
VARIABLES
    variant,               \* "class" (drum_machine.py) or "script"
    sequencer_mode,        \* SequencerMode
    recorded_notes,        \* defaultdict(list): time -> list of messages
    quantization_delta,
    clock_event_id,        \* None or Some(id): the handle start_playback stored
    stop_listening_for_input,
    clock_events,          \* the clock's queue: event id -> [invocations, delta]
    next_event_id,         \* the clock's id counter
    tick                   \* None or Some(frame): the callback the clock
                           \* thread is running now

dm_vars == << variant, sequencer_mode, recorded_notes, quantization_delta,
              clock_event_id, stop_listening_for_input, clock_events,
              next_event_id, tick >>

\* Part II - the multi-instrument sequencer of src/sampler_sequencer
\* (Sequencer, its Tracks and its clock).
VARIABLES
    quantization,              \* Sequencer._quantization, a token
    seq_quantization_delta,    \* Sequencer._quantization_delta
    track_length_in_measures,
    is_recording,
    tracks,                    \* instrument name -> list of Track objects
    selected_instrument,
    selected_track,            \* a Track object
    playing_tracks,            \* list of Track objects
    seq_clock_event_id,        \* Sequencer._clock_event_id
    track_objects,             \* Track object -> its fields
    clock_is_running,
    seq_clock_events,          \* event id -> [track, invocations, delta]
    seq_next_event_id,
    sink,                      \* the instrument calls of the last MIDI message
                               \* or track tick: << [instrument, type, note] >>
    raised                     \* the exception the last selection command
                               \* raised to its caller, None when it returned

seq_vars == << quantization, seq_quantization_delta, track_length_in_measures,
               is_recording, tracks, selected_instrument, selected_track,
               playing_tracks, seq_clock_event_id, track_objects,
               clock_is_running, seq_clock_events, seq_next_event_id, sink,
               raised >>

\* Part III - the sampler studio of src/sampler: the SupriyaStudio object with
\* its Sequencer, the sequencer's clock and the mixer's recording buffer.
VARIABLES
    studio     \* a record of the fields named in StudioInit

\* Part IV - one Track of src/sampler_sequencer under its three threads.
VARIABLES
    shared     \* a record of the fields named in SharedInit

\* Part V - the clock arpeggiator of src/arpeggiator_clock.
VARIABLES
    arp        \* a record of the fields named in ArpInit

\* The polyphonic MIDI synth of midi_synth.py and midi_synth_effects.py
VARIABLES
    synths     \* a record of the fields named in MidiSynthInit

vars == << dm_vars, seq_vars, studio, shared, arp, synths >>

SequencerMode == { "PERFORM", "PLAYBACK", "RECORD" }

Commands == { "STOP", "CLEAR", "EXIT", "PERFORM", "PLAYBACK", "RECORD", "FOO" }

EmptyNotes == [k \in {} |-> << >>]

\* Number of messages a step map holds.
RECURSIVE CountNotes(_)
CountNotes(notes) ==
    IF DOMAIN notes = {} THEN 0
    ELSE LET k == CHOOSE x \in DOMAIN notes : TRUE
         IN  Len(notes[k]) + CountNotes([j \in DOMAIN notes \ {k} |-> notes[j]])

\* defaultdict: notes[key], the key being created with an empty list on a miss.
Subscript(notes, key) ==
    IF key \in DOMAIN notes THEN notes
    ELSE [k \in DOMAIN notes \cup {key} |-> IF k = key THEN << >> ELSE notes[k]]

\* notes[key].append(message)
AppendAt(notes, key, message) ==
    LET n == Subscript(notes, key)
    IN  [n EXCEPT ![key] = Append(@, message)]

\* ------------------------------------------------------------ on_note_on
\* The recorded time counted in quarter notes instead of whole notes.
RecordedTimeInQuarters(message, delta) ==
    (message.note % SEQUENCER_STEPS) * delta * 4

\* recorded_time = (message.note % SEQUENCER_STEPS) * quantization_delta
RecordedTime(message, delta) == (message.note % SEQUENCER_STEPS) * delta

\* on_note_on recording in every mode but PLAYBACK.
OnNoteOnUnlessPlayback(notes, mode, delta, message) ==
    IF mode # "PLAYBACK"
    THEN AppendAt(notes, RecordedTime(message, delta),
                  CopyWithTime(message, RecordedTime(message, delta)))
    ELSE notes

\* The step map after on_note_on(message).
OnNoteOn(notes, mode, delta, message) ==
    IF mode = "RECORD"
    THEN AppendAt(notes, RecordedTime(message, delta),
                  CopyWithTime(message, RecordedTime(message, delta)))
    ELSE notes

\* handle_midi_message: only Note On messages are handled.
HandleMidiMessage(notes, mode, delta, message) ==
    IF message.type = "note_on" THEN OnNoteOn(notes, mode, delta, message)
    ELSE notes

\* The list the running callback iterates is the list object it read from the
\* step map: it sees an append made to that list while it is still the map's
\* list for the same time.
FrameAfter(notes_before, notes_after) ==
    IF tick = None THEN tick
    ELSE LET t == tick[1]
         IN  IF t.attached /\ t.key \in DOMAIN notes_after
             THEN Some([t EXCEPT !.list = notes_after[t.key]])
             ELSE tick

\* ------------------------------------------------- start / stop playback
\* clock.cue(procedure=sequencer_clock_callback, kwargs={'delta': ...})
Cue(events, id, delta) ==
    [e \in DOMAIN events \cup {id} |->
        IF e = id THEN [invocations |-> 0, delta |-> delta] ELSE events[e]]

\* A cancel that frees a queue slot whether or not the id is queued.
CancelFreesSlot(events, id) ==
    IF id \in DOMAIN events THEN [e \in DOMAIN events \ {id} |-> events[e]]
    ELSE IF DOMAIN events = {} THEN events
    ELSE [e \in DOMAIN events \ {CHOOSE x \in DOMAIN events :
                                      \A y \in DOMAIN events : x <= y} |-> events[e]]

\* clock.cancel(event_id): no effect for an id that is not queued.
Cancel(events, id) == [e \in DOMAIN events \ {id} |-> events[e]]

\* start_playback dropping the event id that cue returns.
StartPlaybackDropsHandle(events, id, delta) ==
    [events |-> Cue(events, id, delta), handle |-> None]

\* start_playback: cues the callback and stores the handle.
StartPlayback(events, id, delta) ==
    [events |-> Cue(events, id, delta), handle |-> Some(id)]

\* stop_playback: cancels the stored handle.
StopPlayback(events, handle) ==
    IF handle # None THEN Cancel(events, handle[1]) ELSE events

\* ---------------------------------------------------- the command loop
IsMember(command) == command \in SequencerMode

\* One iteration of consume_keyboard_input for the upper-cased command.
\* A command loop in which CLEAR, like STOP, goes back to PERFORM.
ModeAfterStopOrClear(command, mode) ==
    IF command \in { "STOP", "CLEAR" } THEN "PERFORM" ELSE mode

ModeAfterStop(command, mode) == IF command = "STOP" THEN "PERFORM" ELSE mode

EventsAfterStop(command, mode, events, handle) ==
    IF command = "STOP" /\ mode = "PLAYBACK"
    THEN StopPlayback(events, handle) ELSE events

\* The mode-name branch: the mode after it.
ModeAfterCommand(command, mode) ==
    IF IsMember(command) THEN command ELSE ModeAfterStop(command, mode)

\* Whether the iteration reaches the trailing `if mode == PLAYBACK:
\* start_playback()`: not after EXIT (break) nor when the command names the
\* current mode (continue).
ReachesStart(command, mode) ==
    /\ command # "EXIT"
    /\ ~(IsMember(command) /\ mode = command)
    /\ ModeAfterCommand(command, mode) = "PLAYBACK"

ConsumeKeyboardInput(command) ==
    /\ ~stop_listening_for_input
    /\ LET ev1 == EventsAfterStop(command, sequencer_mode, clock_events,
                                  clock_event_id)
           ev2 == IF /\ IsMember(command)
                     /\ sequencer_mode # command
                     /\ sequencer_mode = "PLAYBACK"
                  THEN StopPlayback(ev1, clock_event_id) ELSE ev1
           notes1 == IF command = "CLEAR" THEN EmptyNotes ELSE recorded_notes
       IN  IF command = "EXIT"
           THEN /\ stop_listening_for_input' = TRUE
                /\ UNCHANGED << sequencer_mode, recorded_notes, clock_events,
                                clock_event_id, next_event_id, tick >>
           ELSE /\ sequencer_mode' = ModeAfterCommand(command, sequencer_mode)
                /\ recorded_notes' = notes1
                /\ tick' = IF command = "CLEAR" /\ tick # None
                           THEN Some([tick[1] EXCEPT !.attached = FALSE])
                           ELSE tick
                /\ IF ReachesStart(command, sequencer_mode)
                   THEN /\ next_event_id <= MaxEvents
                        /\ clock_events' =
                              StartPlayback(ev2, next_event_id,
                                            quantization_delta).events
                        /\ clock_event_id' =
                              StartPlayback(ev2, next_event_id,
                                            quantization_delta).handle
                        /\ next_event_id' = next_event_id + 1
                   ELSE /\ clock_events' = ev2
                        /\ UNCHANGED << clock_event_id, next_event_id >>
                /\ UNCHANGED stop_listening_for_input
    /\ UNCHANGED << variant, quantization_delta >>
    /\ UNCHANGED seq_vars
    /\ UNCHANGED << studio, shared, arp, synths >>

\* ---------------------------------------------------- the MIDI listener
\* listen_for_midi_messages: one pending message handled.
ListenForMidiMessages(type, note) ==
    /\ ~stop_listening_for_input
    /\ (type = "note_on" /\ sequencer_mode = "RECORD")
          => CountNotes(recorded_notes) < MaxNotes
    /\ recorded_notes' = HandleMidiMessage(recorded_notes, sequencer_mode,
                                           quantization_delta,
                                           Message(type, note))
    /\ tick' = FrameAfter(recorded_notes, recorded_notes')
    /\ UNCHANGED << variant, sequencer_mode, quantization_delta, clock_event_id,
                    stop_listening_for_input, clock_events, next_event_id >>
    /\ UNCHANGED seq_vars
    /\ UNCHANGED << studio, shared, arp, synths >>

\* ------------------------------------------------------ the clock thread
\* The `delta` the callback is called with: the cue's kwargs in the class, the
\* parameter's default in the script (cued without kwargs).
CallbackDelta(v, event) == IF v = "class" THEN event.delta ELSE DefaultDelta

\* recorded_notes_index = delta * (context.event.invocations % SEQUENCER_STEPS)
RecordedNotesIndex(delta, invocations) == delta * (invocations % SEQUENCER_STEPS)

\* The callback giving up (returning no delta) on a step without notes.
ReturnedDeltaStopsOnRest(v, frame, delta) ==
    IF frame.list = << >> THEN 0 ELSE frame.delta

\* The delta the callback returns.
ReturnedDelta(v, frame, delta) == IF v = "class" THEN frame.delta ELSE delta

\* sequencer_clock_callback is entered: it reads the list of its step.
CallbackBegin(id) ==
    /\ tick = None
    /\ ~stop_listening_for_input
    /\ id \in DOMAIN clock_events
    /\ clock_events[id].invocations < MaxInvocations
    /\ LET d == CallbackDelta(variant, clock_events[id])
           index == RecordedNotesIndex(d, clock_events[id].invocations)
       IN  /\ recorded_notes' = Subscript(recorded_notes, index)
           /\ tick' = Some([id |-> id,
                            invocations |-> clock_events[id].invocations,
                            delta |-> d, key |-> index,
                            list |-> recorded_notes'[index],
                            pos |-> 0, attached |-> TRUE])
    /\ UNCHANGED << variant, sequencer_mode, quantization_delta, clock_event_id,
                    stop_listening_for_input, clock_events, next_event_id >>
    /\ UNCHANGED seq_vars
    /\ UNCHANGED << studio, shared, arp, synths >>

\* One pass of `for message in midi_messages: handle_midi_message(message)`.
CallbackDispatch ==
    /\ tick # None
    /\ tick[1].pos < Len(tick[1].list)
    /\ sequencer_mode = "RECORD" => CountNotes(recorded_notes) < MaxNotes
    /\ LET t == tick[1]
           message == t.list[t.pos + 1]
           after == HandleMidiMessage(recorded_notes, sequencer_mode,
                                      quantization_delta, message)
       IN  /\ recorded_notes' = after
           /\ tick' = Some([t EXCEPT !.pos = @ + 1,
                                     !.list = IF t.attached /\ t.key \in DOMAIN after
                                              THEN after[t.key] ELSE @])
    /\ UNCHANGED << variant, sequencer_mode, quantization_delta, clock_event_id,
                    stop_listening_for_input, clock_events, next_event_id >>
    /\ UNCHANGED seq_vars
    /\ UNCHANGED << studio, shared, arp, synths >>

\* The callback returns (delta, BEATS): the clock queues the event again
\* unless it was cancelled meanwhile.
Reschedule(events, id, delta) ==
    IF id \in DOMAIN events /\ delta > 0
    THEN [events EXCEPT ![id].invocations = @ + 1]
    ELSE Cancel(events, id)

CallbackReturn ==
    /\ tick # None
    /\ tick[1].pos = Len(tick[1].list)
    /\ clock_events' = Reschedule(clock_events, tick[1].id,
                                  ReturnedDelta(variant, tick[1],
                                                quantization_delta))
    /\ tick' = None
    /\ UNCHANGED << variant, sequencer_mode, recorded_notes, quantization_delta,
                    clock_event_id, stop_listening_for_input, next_event_id >>
    /\ UNCHANGED seq_vars
    /\ UNCHANGED << studio, shared, arp, synths >>

\* =========================================================== Part II
\* The instruments dict of the Sequencer, in insertion order.
InstrumentNames == << "Sampler", "SP-303" >>
Instruments == { InstrumentNames[i] : i \in 1..Len(InstrumentNames) }

\* Tokens the quantization setter is called with.
SeqQuantizations == { Tok_1_16, Tok_1_8 }

IsDigit(c) == c \in { "0", "1", "2", "3", "4", "5", "6", "7", "8", "9" }

\* int(text): None stands for the ValueError of a text that is no integer.
IntOf(s) ==
    IF s # << >> /\ \A i \in 1..Len(s) : IsDigit(s[i])
    THEN Some(ParseInt(s)) ELSE None

\* _compute_track_length_in_measures:
\* SEQUENCER_STEPS // int(quantization.split('/')[1]); None when it raises.
ComputeTrackLengthInMeasures(q) ==
    IF ~(\E i \in 1..Len(q) : q[i] = "/") THEN None
    ELSE LET den == IntOf(SubSeq(q, SlashAt(q) + 1, Len(q)))
         IN  IF den = None \/ den = Some(0) THEN None
             ELSE Some(SEQUENCER_STEPS \div den[1])

\* Track.__init__
NewTrack(instrument, track_number, delta, recording) ==
    [instrument |-> instrument, track_number |-> track_number,
     quantization_delta |-> delta, is_recording |-> recording,
     recorded_notes |-> EmptyNotes, clock_event_id |-> None]

\* The Track objects held by the tracks dict.
RECURSIVE SeqToSet(_)
SeqToSet(s) == IF s = << >> THEN {} ELSE {Head(s)} \cup SeqToSet(Tail(s))

ListedTracks(tr) == UNION { SeqToSet(tr[name]) : name \in Instruments }

\* Messages recorded on all Track objects.
RECURSIVE CountAll(_, _)
CountAll(objs, ids) ==
    IF ids = {} THEN 0
    ELSE LET t == CHOOSE x \in ids : TRUE
         IN  CountNotes(objs[t].recorded_notes) + CountAll(objs, ids \ {t})

\* record() computing the step with // in place of %.
TrackRecordedTimeFloorDiv(track, message) ==
    (message.note \div SEQUENCER_STEPS) * track.quantization_delta

\* record() computing the step without the modulo.
TrackRecordedTimeNoModulo(track, message) ==
    message.note * track.quantization_delta

\* Track.handle_midi_message: the track after the message (the instrument
\* plays it in every case).
TrackRecordedTime(track, message) ==
    (message.note % SEQUENCER_STEPS) * track.quantization_delta

\* Track.handle_midi_message recording whatever message it is given.
TrackHandleMidiMessageAnyType(track, message) ==
    IF track.is_recording
    THEN [track EXCEPT !.recorded_notes =
            AppendAt(@, (message.note % SEQUENCER_STEPS) * track.quantization_delta,
                     message)]
    ELSE track

TrackHandleMidiMessage(track, message) ==
    IF track.is_recording /\ message.type = "note_on"
    THEN [track EXCEPT !.recorded_notes =
            AppendAt(@, TrackRecordedTime(track, message),
                     CopyWithTime(message, TrackRecordedTime(track, message)))]
    ELSE track

\* instrument.handle_midi_message for each message of a list: the calls made.
InstrumentHandleMidiMessage(instrument, messages) ==
    [j \in 1..Len(messages) |->
        [instrument |-> instrument, type |-> messages[j].type,
         note |-> messages[j].note]]

\* Sequencer.handle_midi_message
SeqHandleMidiMessage(type, note) ==
    /\ UNCHANGED << quantization, seq_quantization_delta,
                    track_length_in_measures, is_recording, tracks,
                    selected_instrument, selected_track, playing_tracks,
                    seq_clock_event_id, clock_is_running, seq_clock_events,
                    seq_next_event_id >>
    /\ UNCHANGED dm_vars
    /\ UNCHANGED << studio, shared, arp, synths >>
    /\ UNCHANGED raised
    /\ sink' = IF ~is_recording
               THEN InstrumentHandleMidiMessage(selected_instrument,
                                                << Message(type, note) >>)
               ELSE InstrumentHandleMidiMessage(
                       track_objects[selected_track].instrument,
                       << Message(type, note) >>)
    /\ (is_recording /\ type = "note_on")
          => CountAll(track_objects, DOMAIN track_objects) < MaxTrackNotes
    /\ track_objects' =
          IF ~is_recording THEN track_objects
          ELSE [track_objects EXCEPT ![selected_track] =
                  TrackHandleMidiMessage(@, Message(type, note))]

\* is_recording setter (start_recording / stop_recording): the flag of the
\* sequencer and of every track of the tracks dict.
SetIsRecording(objs, tr, value) ==
    [t \in DOMAIN objs |->
        IF t \in ListedTracks(tr) THEN [objs[t] EXCEPT !.is_recording = value]
        ELSE objs[t]]

StartRecording ==
    /\ is_recording' = TRUE
    /\ track_objects' = SetIsRecording(track_objects, tracks, TRUE)
    /\ UNCHANGED << quantization, seq_quantization_delta,
                    track_length_in_measures, tracks, selected_instrument,
                    selected_track, playing_tracks, seq_clock_event_id,
                    clock_is_running, seq_clock_events, seq_next_event_id >>
    /\ UNCHANGED << sink, raised >>
    /\ UNCHANGED dm_vars
    /\ UNCHANGED << studio, shared, arp, synths >>

StopRecording ==
    /\ is_recording' = FALSE
    /\ track_objects' = SetIsRecording(track_objects, tracks, FALSE)
    /\ UNCHANGED << quantization, seq_quantization_delta,
                    track_length_in_measures, tracks, selected_instrument,
                    selected_track, playing_tracks, seq_clock_event_id,
                    clock_is_running, seq_clock_events, seq_next_event_id >>
    /\ UNCHANGED << sink, raised >>
    /\ UNCHANGED dm_vars
    /\ UNCHANGED << studio, shared, arp, synths >>

\* quantization_delta setter: the delta of the sequencer and of every track of
\* the tracks dict; recorded notes are left as they are.
\* A quantization_delta setter that drops what was recorded on the old grid.
SetQuantizationDeltaErasing(objs, tr, delta) ==
    [t \in DOMAIN objs |->
        IF t \in ListedTracks(tr)
        THEN [objs[t] EXCEPT !.quantization_delta = delta,
                             !.recorded_notes = EmptyNotes]
        ELSE objs[t]]

SetQuantizationDelta(objs, tr, delta) ==
    [t \in DOMAIN objs |->
        IF t \in ListedTracks(tr) THEN [objs[t] EXCEPT !.quantization_delta = delta]
        ELSE objs[t]]

\* quantization setter; the track length keeps its value when computing it
\* raises.
SetQuantization(q) ==
    /\ quantization' = q
    /\ UNCHANGED << is_recording, tracks, selected_instrument, selected_track,
                    playing_tracks, seq_clock_event_id, clock_is_running,
                    seq_clock_events, seq_next_event_id >>
    /\ UNCHANGED << sink, raised >>
    /\ UNCHANGED dm_vars
    /\ UNCHANGED << studio, shared, arp, synths >>
    /\ seq_quantization_delta' = QuantizationToBeats(q)
    /\ track_objects' = SetQuantizationDelta(track_objects, tracks,
                                             QuantizationToBeats(q))
    /\ track_length_in_measures' =
          IF ComputeTrackLengthInMeasures(q) = None THEN track_length_in_measures
          ELSE ComputeTrackLengthInMeasures(q)[1]

\* An erase that empties the list of every step and keeps the keys.
EraseRecordedNotesKeepsKeys(t) ==
    /\ t \in DOMAIN track_objects
    /\ track_objects' =
          [track_objects EXCEPT ![t].recorded_notes =
              [k \in DOMAIN track_objects[t].recorded_notes |-> << >>]]
    /\ UNCHANGED << quantization, seq_quantization_delta,
                    track_length_in_measures, is_recording, tracks,
                    selected_instrument, selected_track, playing_tracks,
                    seq_clock_event_id, clock_is_running, seq_clock_events,
                    seq_next_event_id, sink, raised >>
    /\ UNCHANGED dm_vars
    /\ UNCHANGED << studio, shared, arp, synths >>

\* Track.erase_recorded_notes
EraseRecordedNotes(t) ==
    /\ t \in DOMAIN track_objects
    /\ UNCHANGED << quantization, seq_quantization_delta,
                    track_length_in_measures, is_recording, tracks,
                    selected_instrument, selected_track, playing_tracks,
                    seq_clock_event_id, clock_is_running, seq_clock_events,
                    seq_next_event_id >>
    /\ UNCHANGED << sink, raised >>
    /\ UNCHANGED dm_vars
    /\ UNCHANGED << studio, shared, arp, synths >>
    /\ track_objects' = [track_objects EXCEPT ![t].recorded_notes = EmptyNotes]

\* ------------------------------------------------ add / delete / select
AddedTrackNumber(objs, list) ==
    IF Len(list) > 0 THEN objs[list[Len(list)]].track_number + 1 ELSE 0

\* A Track object lives while the tracks dict, selected_track, playing_tracks or
\* a cued callback refers to it.
Referenced(tr, selected, playing, events) ==
    ListedTracks(tr) \cup {selected} \cup SeqToSet(playing)
        \cup { events[e].track[1] : e \in { x \in DOMAIN events : events[x].track # None } }

Collect(objs, live) == [t \in DOMAIN objs \cap live |-> objs[t]]

\* self.tracks[instrument_name]: tracks is a defaultdict(list), which inserts
\* an empty list for a key it does not hold.
TracksSubscript(tr, instrument_name) ==
    [name \in DOMAIN tr \cup {instrument_name} |->
        IF name \in DOMAIN tr THEN tr[name] ELSE << >>]

\* self.instruments[instrument_name] is evaluated after
\* self.tracks[instrument_name]: a name that is no key of instruments has its
\* empty list inserted into the defaultdict before the KeyError is raised.
AddTrack(instrument_name) ==
    /\ IF instrument_name \in Instruments
       THEN /\ Cardinality(DOMAIN track_objects) < MaxTracks
            /\ LET t == CHOOSE x \in 1..MaxTracks : x \notin DOMAIN track_objects
                   new == NewTrack(instrument_name,
                                   AddedTrackNumber(track_objects, tracks[instrument_name]),
                                   seq_quantization_delta, is_recording)
               IN  /\ tracks' = [tracks EXCEPT ![instrument_name] = Append(@, t)]
                   /\ track_objects' =
                         [x \in DOMAIN track_objects \cup {t} |->
                             IF x = t THEN new ELSE track_objects[x]]
            /\ raised' = None
       ELSE /\ tracks' = TracksSubscript(tracks, instrument_name)
            /\ raised' = Some("KeyError")
            /\ UNCHANGED track_objects
    /\ UNCHANGED << quantization, seq_quantization_delta,
                    track_length_in_measures, is_recording, selected_instrument,
                    selected_track, playing_tracks, seq_clock_event_id,
                    clock_is_running, seq_clock_events, seq_next_event_id >>
    /\ UNCHANGED sink
    /\ UNCHANGED dm_vars
    /\ UNCHANGED << studio, shared, arp, synths >>

\* del list[index], index counted from 0
DeleteAt(list, index) ==
    SubSeq(list, 1, index) \o SubSeq(list, index + 2, Len(list))

\* delete_track without the renumbering loop.
RenumberNothing(objs, list, removed_track_number) == objs

\* for tn in range(removed_track_number, num_tracks):
\*     tracks[instrument_name][tn].track_number = tn
Renumber(objs, list, removed_track_number) ==
    [t \in DOMAIN objs |->
        IF \E tn \in removed_track_number..(Len(list) - 1) : list[tn + 1] = t
        THEN [objs[t] EXCEPT !.track_number =
                CHOOSE tn \in removed_track_number..(Len(list) - 1) : list[tn + 1] = t]
        ELSE objs[t]]

\* list[index] of Python: an index below 0 counts from the end of the list. The
\* position (from 0) the index names, None where Python raises IndexError.
ListIndex(list, index) ==
    LET position == IF index < 0 THEN Len(list) + index ELSE index
    IN  IF position \in 0..(Len(list) - 1) THEN Some(position) ELSE None

DeleteTrack(instrument_name, track_number) ==
    /\ LET list == TracksSubscript(tracks, instrument_name)[instrument_name]
           position == ListIndex(list, track_number)
       IN  IF position # None
           THEN LET removed_track_number == track_objects[list[position[1] + 1]].track_number
                    rest == DeleteAt(list, position[1])
                IN  /\ tracks' = [tracks EXCEPT ![instrument_name] = rest]
                    /\ track_objects' =
                          Collect(Renumber(track_objects, rest, removed_track_number),
                                  Referenced(tracks', selected_track, playing_tracks,
                                             seq_clock_events))
                    /\ raised' = None
           ELSE /\ tracks' = TracksSubscript(tracks, instrument_name)
                /\ raised' = Some("IndexError")
                /\ UNCHANGED track_objects
    /\ UNCHANGED << quantization, seq_quantization_delta,
                    track_length_in_measures, is_recording, selected_instrument,
                    selected_track, playing_tracks, seq_clock_event_id,
                    clock_is_running, seq_clock_events, seq_next_event_id >>
    /\ UNCHANGED sink
    /\ UNCHANGED dm_vars
    /\ UNCHANGED << studio, shared, arp, synths >>

\* A selection that takes any name for an instrument.
SelectedInstrumentAnyName(selected, name) == name

\* self.instruments[name]: the instrument of a key of the dict; a KeyError for
\* any other name leaves the selection as it was.
SelectedInstrumentByName(selected, name) ==
    IF name \in Instruments THEN name ELSE selected

SetSelectedInstrumentByName(name) ==
    /\ selected_instrument' = SelectedInstrumentByName(selected_instrument, name)
    /\ raised' = IF name \in Instruments THEN None ELSE Some("KeyError")
    /\ UNCHANGED << quantization, seq_quantization_delta,
                    track_length_in_measures, is_recording, tracks,
                    selected_track, playing_tracks, seq_clock_event_id,
                    track_objects, clock_is_running, seq_clock_events,
                    seq_next_event_id >>
    /\ UNCHANGED sink
    /\ UNCHANGED dm_vars
    /\ UNCHANGED << studio, shared, arp, synths >>

\* set_selected_track_by_track_number: an index the list does not have raises
\* IndexError and leaves the selection as it was.
SetSelectedTrackByTrackNumber(instrument_name, track_number) ==
    /\ tracks' = TracksSubscript(tracks, instrument_name)
    /\ IF ListIndex(tracks'[instrument_name], track_number) # None
       THEN /\ selected_track' =
                  tracks'[instrument_name]
                         [ListIndex(tracks'[instrument_name], track_number)[1] + 1]
            /\ raised' = None
       ELSE /\ selected_track' = selected_track
            /\ raised' = Some("IndexError")
    /\ track_objects' =
          Collect(track_objects,
                  Referenced(tracks, selected_track', playing_tracks,
                             seq_clock_events))
    /\ UNCHANGED << quantization, seq_quantization_delta,
                    track_length_in_measures, is_recording,
                    selected_instrument, playing_tracks, seq_clock_event_id,
                    clock_is_running, seq_clock_events, seq_next_event_id >>
    /\ UNCHANGED sink
    /\ UNCHANGED dm_vars
    /\ UNCHANGED << studio, shared, arp, synths >>

\* ------------------------------------------------------------ playback
\* Sequencer.start_playback: clock.start() raises when the clock is running
\* already; otherwise the sequencer callback is cued with delta 1.0.
SeqCue(events, id, track, delta) ==
    [e \in DOMAIN events \cup {id} |->
        IF e = id THEN [track |-> track, invocations |-> 0, delta |-> delta]
        ELSE events[e]]

SeqStartPlayback ==
    /\ ~clock_is_running
    /\ seq_next_event_id <= MaxCues
    /\ clock_is_running' = TRUE
    /\ seq_clock_events' = SeqCue(seq_clock_events, seq_next_event_id, None, Unit)
    /\ seq_clock_event_id' = Some(seq_next_event_id)
    /\ seq_next_event_id' = seq_next_event_id + 1
    /\ UNCHANGED << quantization, seq_quantization_delta,
                    track_length_in_measures, is_recording, tracks,
                    selected_instrument, selected_track, playing_tracks,
                    track_objects >>
    /\ UNCHANGED << sink, raised >>
    /\ UNCHANGED dm_vars
    /\ UNCHANGED << studio, shared, arp, synths >>

\* BaseSequencer.stop_playback: clock.stop(), then the handle is cancelled.
SeqStopPlayback ==
    /\ clock_is_running' = FALSE
    /\ seq_clock_events' = StopPlayback(seq_clock_events, seq_clock_event_id)
    /\ UNCHANGED << quantization, seq_quantization_delta,
                    track_length_in_measures, is_recording, tracks,
                    selected_instrument, selected_track, playing_tracks,
                    seq_clock_event_id, track_objects, seq_next_event_id >>
    /\ UNCHANGED << sink, raised >>
    /\ UNCHANGED dm_vars
    /\ UNCHANGED << studio, shared, arp, synths >>

\* A stop_tracks_playback that cancels nothing.
StopTracksPlaybackNothing(events, objs, playing) == events

\* stop_tracks_playback: Track.stop_playback of every playing track.
RECURSIVE StopTracksPlayback(_, _, _)
StopTracksPlayback(events, objs, playing) ==
    IF playing = << >> THEN events
    ELSE StopTracksPlayback(StopPlayback(events, objs[Head(playing)].clock_event_id),
                            objs, Tail(playing))

\* The first track of every instrument, whatever the measure.
RECURSIVE TracksAtFirst(_, _, _)
TracksAtFirst(tr, names, track_index) ==
    IF names = << >> THEN << >>
    ELSE (IF 0 < Len(tr[Head(names)])
          THEN << tr[Head(names)][1] >> ELSE << >>)
         \o TracksAtFirst(tr, Tail(names), track_index)

\* for tracks in self.tracks.values():
\*     if track_index < len(tracks): playing_tracks.append(tracks[track_index])
RECURSIVE TracksAt(_, _, _)
TracksAt(tr, names, track_index) ==
    IF names = << >> THEN << >>
    ELSE (IF track_index < Len(tr[Head(names)])
          THEN << tr[Head(names)][track_index + 1] >> ELSE << >>)
         \o TracksAt(tr, Tail(names), track_index)

\* for track in playing_tracks: track.start_playback()
RECURSIVE StartTracks(_, _, _, _)
StartTracks(events, objs, playing, id) ==
    IF playing = << >> THEN [events |-> events, objs |-> objs, next |-> id]
    ELSE StartTracks(
            SeqCue(events, id, Some(Head(playing)),
                   objs[Head(playing)].quantization_delta),
            [objs EXCEPT ![Head(playing)].clock_event_id = Some(id)],
            Tail(playing), id + 1)

\* start_tracks_playback(track_index)
StartTracksPlayback(events, objs, tr, playing, id, track_index) ==
    LET started == StartTracks(StopTracksPlayback(events, objs, playing), objs,
                               TracksAt(tr, InstrumentNames, track_index), id)
    IN  [events |-> started.events, objs |-> started.objs, next |-> started.next,
         playing |-> TracksAt(tr, InstrumentNames, track_index)]

\* The delta sequencer_clock_callback returns.
SeqReturnedDelta(event, tr, track_index) == event.delta

\* Sequencer.sequencer_clock_callback, run by the clock thread.
SequencerClockCallback(id) ==
    /\ clock_is_running
    /\ id \in DOMAIN seq_clock_events
    /\ seq_clock_events[id].track = None
    /\ seq_clock_events[id].invocations < MaxInvocations
    /\ track_length_in_measures > 0
    /\ LET event == seq_clock_events[id]
           index == event.invocations \div track_length_in_measures
           starts == event.invocations % track_length_in_measures = 0
           r == IF starts
                THEN StartTracksPlayback(seq_clock_events, track_objects, tracks,
                                         playing_tracks, seq_next_event_id, index)
                ELSE [events |-> seq_clock_events, objs |-> track_objects,
                      next |-> seq_next_event_id, playing |-> playing_tracks]
       IN  /\ r.next <= MaxCues + 1
           /\ seq_clock_events' =
                 Reschedule(r.events, id, SeqReturnedDelta(event, tracks, index))
           /\ playing_tracks' = r.playing
           /\ track_objects' =
                 Collect(r.objs, Referenced(tracks, selected_track, r.playing,
                                            seq_clock_events'))
           /\ seq_next_event_id' = r.next
    /\ UNCHANGED << quantization, seq_quantization_delta,
                    track_length_in_measures, is_recording, tracks,
                    selected_instrument, selected_track, seq_clock_event_id,
                    clock_is_running >>
    /\ UNCHANGED << sink, raised >>
    /\ UNCHANGED dm_vars
    /\ UNCHANGED << studio, shared, arp, synths >>

\* Track.track_clock_callback, run by the clock thread: the notes of the step
\* are sent to the instrument; the step map is read with get().
TrackNotesAt(track, delta, invocations) ==
    LET index == delta * (invocations % SEQUENCER_STEPS)
    IN  IF index \in DOMAIN track.recorded_notes
        THEN track.recorded_notes[index] ELSE << >>

TrackReturnedDelta(track, delta, invocations) == delta

TrackClockCallback(id) ==
    /\ clock_is_running
    /\ id \in DOMAIN seq_clock_events
    /\ seq_clock_events[id].track # None
    /\ seq_clock_events[id].invocations < MaxInvocations
    /\ seq_clock_events' =
          Reschedule(seq_clock_events, id,
                     TrackReturnedDelta(track_objects[seq_clock_events[id].track[1]],
                                        seq_clock_events[id].delta,
                                        seq_clock_events[id].invocations))
    /\ UNCHANGED << quantization, seq_quantization_delta,
                    track_length_in_measures, is_recording, tracks,
                    selected_instrument, selected_track, playing_tracks,
                    seq_clock_event_id, track_objects, clock_is_running,
                    seq_next_event_id >>
    /\ UNCHANGED raised
    /\ sink' = InstrumentHandleMidiMessage(
                  track_objects[seq_clock_events[id].track[1]].instrument,
                  TrackNotesAt(track_objects[seq_clock_events[id].track[1]],
                               seq_clock_events[id].delta,
                               seq_clock_events[id].invocations))
    /\ UNCHANGED dm_vars
    /\ UNCHANGED << studio, shared, arp, synths >>

\* ================================================= Part III: the studio
\* Sequencer.DELTA = 0.125, the '1/8' grid.
DELTA == Unit \div 8

\* Track(quantization_delta=DELTA, sequencer_steps=SEQUENCER_STEPS): its
\* recorded_notes.
StudioNewTrack == EmptyNotes

\* Track.record_midi_message: the note is stored under its step's time.
RecordMidiMessage(notes, note) ==
    AppendAt(notes, (note % SEQUENCER_STEPS) * DELTA,
             CopyWithTime(Message("note_on", note),
                          (note % SEQUENCER_STEPS) * DELTA))

RECURSIVE StudioCountNotes(_)
StudioCountNotes(trs) ==
    IF trs = << >> THEN 0
    ELSE CountNotes(Head(trs)) + StudioCountNotes(Tail(trs))

\* SupriyaStudio.__init__ / Sequencer.__init__
StudioInit ==
    studio = [tracks |-> << StudioNewTrack >>,
              track_ids |-> << 1 >>,          \* the Track objects of tracks
              selected_track |-> 1,           \* a Track object
              is_sequencing |-> FALSE,
              clock_event_id |-> None,
              playback_track_index |-> 0,
              playing_track |-> None,         \* Some(a Track object)
              raised |-> None,                \* what left the last callback
              monitor_clock_callback_event |-> FALSE,
              monitor_threads |-> 0,          \* monitor threads alive
              clock_is_running |-> FALSE,
              clock_events |-> [e \in {} |-> 0],
              next_event_id |-> 1,
              recording_buffer |-> None,      \* the mixer's recording_buffer
              server_running |-> TRUE,
              last_start_playback |-> None]   \* what the last start_playback
                                              \* call found and did

\* A new object: one that nothing refers to.
StudioFreshTrack(s) ==
    CHOOSE id \in 1..(Len(s.track_ids) + 3) :
        /\ id # s.selected_track
        /\ s.playing_track # Some(id)
        /\ \A i \in 1..Len(s.track_ids) : s.track_ids[i] # id
        /\ \A other \in 1..(id - 1) :
              \/ other = s.selected_track
              \/ s.playing_track = Some(other)
              \/ \E i \in 1..Len(s.track_ids) : s.track_ids[i] = other

\* self.tracks.append(track) for a new Track object holding `notes`.
StudioAppendTrack(s, notes) ==
    [s EXCEPT !.tracks = Append(@, notes),
              !.track_ids = Append(@, StudioFreshTrack(s))]

\* Sequencer.add_track
StudioAddTrack ==
    /\ studio.server_running
    /\ Len(studio.tracks) <= MaxTrackNotes
    /\ studio' = StudioAppendTrack(studio, StudioNewTrack)
    /\ UNCHANGED << dm_vars, seq_vars, shared, arp, synths >>

\* Sequencer.copy_track: a deepcopy of the track is appended.
StudioCopyTrack(track_number) ==
    /\ studio.server_running
    /\ track_number < Len(studio.tracks)
    /\ Len(studio.tracks) < MaxTracks
    /\ studio' = StudioAppendTrack(studio, studio.tracks[track_number + 1])
    /\ UNCHANGED << dm_vars, seq_vars, shared, arp, synths >>

\* del self.tracks[track_number]
StudioDel(list, track_number) ==
    SubSeq(list, 1, track_number) \o SubSeq(list, track_number + 2, Len(list))

\* A delete_track that leaves the selection alone.
StudioSelectedKept(s) == s.selected_track

\* self.selected_track = self.tracks[-1]
StudioSelectedLast(s) == s.track_ids[Len(s.track_ids)]

\* Sequencer.delete_track
StudioDeleteTrack(track_number) ==
    /\ studio.server_running
    /\ track_number < Len(studio.tracks)
    /\ LET s1 == [studio EXCEPT
                     !.tracks = StudioDel(@, track_number),
                     !.track_ids = StudioDel(@, track_number)]
           s2 == IF Len(s1.tracks) = 0
                 THEN StudioAppendTrack(s1, StudioNewTrack) ELSE s1
       IN  studio' = [s2 EXCEPT !.selected_track = StudioSelectedLast(s2)]
    /\ UNCHANGED << dm_vars, seq_vars, shared, arp, synths >>

\* Sequencer.set_selected_track_by_track_number
StudioSetSelectedTrackByTrackNumber(track_number) ==
    /\ studio.server_running
    /\ track_number < Len(studio.tracks)
    /\ studio' = [studio EXCEPT
                     !.selected_track = studio.track_ids[track_number + 1]]
    /\ UNCHANGED << dm_vars, seq_vars, shared, arp, synths >>

\* Sequencer.start_sequencing / stop_sequencing
StudioStartSequencing ==
    /\ studio.server_running
    /\ studio' = [studio EXCEPT !.is_sequencing = TRUE]
    /\ UNCHANGED << dm_vars, seq_vars, shared, arp, synths >>

StudioStopSequencing ==
    /\ studio.server_running
    /\ studio' = [studio EXCEPT !.is_sequencing = FALSE]
    /\ UNCHANGED << dm_vars, seq_vars, shared, arp, synths >>

\* Sequencer.handle_note_on: the sampler plays the note; it is recorded on the
\* selected track while sequencing.
StudioHandleNoteOn(note) ==
    /\ studio.server_running
    /\ studio.is_sequencing => StudioCountNotes(studio.tracks) < MaxTrackNotes
    /\ studio' =
          IF /\ studio.is_sequencing
             /\ \E i \in 1..Len(studio.track_ids) :
                   studio.track_ids[i] = studio.selected_track
          THEN [studio EXCEPT
                  !.tracks[CHOOSE i \in 1..Len(studio.track_ids) :
                              studio.track_ids[i] = studio.selected_track] =
                      RecordMidiMessage(@, note)]
          ELSE studio
    /\ UNCHANGED << dm_vars, seq_vars, shared, arp, synths >>

\* Sequencer.erase_track
StudioEraseTrack(track_number) ==
    /\ studio.server_running
    /\ track_number < Len(studio.tracks)
    /\ studio' = [studio EXCEPT !.tracks[track_number + 1] = EmptyNotes]
    /\ UNCHANGED << dm_vars, seq_vars, shared, arp, synths >>

\* Some track holds recorded notes.
HasRecordedNotesOnAnyTrack(trs) ==
    \E i \in 1..Len(trs) : DOMAIN trs[i] # {}

\* The test of start_playback: there is a first track and it holds notes.
HasRecordedNotes(trs) ==
    Len(trs) >= 1 /\ DOMAIN trs[1] # {}

\* Sequencer.start_playback.  The mixer starts recording and the monitor thread
\* is started before clock.start(), which raises when the clock is running.
StartRecordingAndMonitor(s) ==
    [s EXCEPT !.recording_buffer = Some("Buffer"),
              !.monitor_threads = @ + 1]

\* self.clock.start(); self.clock_event_id = self.clock.cue(...)
StartClockAndCue(s) ==
    IF s.clock_is_running THEN s
    ELSE [s EXCEPT
            !.clock_is_running = TRUE,
            !.clock_events =
                [e \in DOMAIN @ \cup {s.next_event_id} |->
                    IF e = s.next_event_id
                    THEN [invocations |-> 0, delta |-> DELTA]
                    ELSE @[e]],
            !.clock_event_id = Some(s.next_event_id),
            !.next_event_id = @ + 1]

SequencerStartPlayback(s) ==
    IF ~HasRecordedNotes(s.tracks) THEN s
    ELSE StartClockAndCue(StartRecordingAndMonitor(s))

\* The call observed: whether some track held notes and the clock was running
\* before it, whether it cued a callback and whether it changed any field.
StartPlaybackOutcome(before, after) ==
    [recorded |-> HasRecordedNotesOnAnyTrack(before.tracks),
     was_running |-> before.clock_is_running,
     scheduled |-> /\ after.clock_is_running
                   /\ after.clock_event_id # None
                   /\ after.clock_event_id[1] \in DOMAIN after.clock_events
                   /\ after.clock_event_id[1] \notin DOMAIN before.clock_events,
     changed |-> after # before]

StudioStartPlayback ==
    /\ studio.server_running
    /\ studio.next_event_id <= MaxEvents
    /\ studio.monitor_threads < MaxEvents
    /\ studio' = [SequencerStartPlayback(studio) EXCEPT
                     !.last_start_playback =
                         Some(StartPlaybackOutcome(
                                 studio, SequencerStartPlayback(studio)))]
    /\ UNCHANGED << dm_vars, seq_vars, shared, arp, synths >>

\* Sequencer.stop_playback; the mixer's stop_recording closes the buffer and
\* leaves recording_buffer set.
SequencerStopPlayback(s) ==
    IF ~s.clock_is_running THEN s
    ELSE LET s1 == [s EXCEPT !.playback_track_index = 0,
                             !.monitor_clock_callback_event = TRUE]
         IN  IF s.clock_event_id = None THEN s1
             ELSE [s1 EXCEPT !.clock_events = Cancel(@, s.clock_event_id[1]),
                             !.clock_is_running = FALSE]

StudioStopPlayback ==
    /\ studio.server_running
    /\ studio' = SequencerStopPlayback(studio)
    /\ UNCHANGED << dm_vars, seq_vars, shared, arp, synths >>

\* Sequencer._monitor_clock_callback: a monitor thread leaves its loop once the
\* event is set, calls stop_playback and ends.
MonitorClockCallback(s) ==
    [SequencerStopPlayback(s) EXCEPT !.monitor_threads = @ - 1]

StudioMonitorClockCallback ==
    /\ studio.monitor_threads > 0
    /\ studio.monitor_clock_callback_event
    /\ studio' = MonitorClockCallback(studio)
    /\ UNCHANGED << dm_vars, seq_vars, shared, arp, synths >>

\* Sequencer.start_playback with the monitor thread it has started running
\* before the menu thread comes to clock.start(): the event is set already, so
\* the new thread calls stop_playback and ends, and then the clock is started.
SequencerStartPlaybackMonitorFirst(s) ==
    StartClockAndCue(MonitorClockCallback(StartRecordingAndMonitor(s)))

StudioStartPlaybackMonitorFirst ==
    /\ studio.server_running
    /\ studio.next_event_id <= MaxEvents
    /\ HasRecordedNotes(studio.tracks)
    /\ studio.monitor_clock_callback_event
    /\ studio' = [SequencerStartPlaybackMonitorFirst(studio) EXCEPT
                     !.last_start_playback =
                         Some(StartPlaybackOutcome(
                                 studio,
                                 SequencerStartPlaybackMonitorFirst(studio)))]
    /\ UNCHANGED << dm_vars, seq_vars, shared, arp, synths >>

\* Sequencer.sequencer_clock_callback, run by the clock thread for a queued
\* event.  Every SEQUENCER_STEPS invocations the next track is taken; at the
\* end of the list the event is set and the callback is not queued again.  An
\* index past the end of the list makes self.tracks[...] raise IndexError, which
\* ends the callback with nothing else done.
StudioSequencerClockCallback(id) ==
    /\ studio.clock_is_running
    /\ id \in DOMAIN studio.clock_events
    /\ LET event == studio.clock_events[id]
           first == event.invocations % SEQUENCER_STEPS = 0
       IN  IF first /\ studio.playback_track_index = Len(studio.tracks)
           THEN studio' = [studio EXCEPT
                              !.monitor_clock_callback_event = TRUE,
                              !.raised = None,
                              !.clock_events = Cancel(@, id)]
           ELSE IF first /\ studio.playback_track_index > Len(studio.tracks)
           THEN studio' = [studio EXCEPT
                              !.raised = Some("IndexError"),
                              !.clock_events = Cancel(@, id)]
           ELSE studio' = [studio EXCEPT
                              !.playing_track =
                                  IF first
                                  THEN Some(studio.track_ids
                                               [studio.playback_track_index + 1])
                                  ELSE @,
                              !.playback_track_index =
                                  IF first THEN @ + 1 ELSE @,
                              !.raised = None,
                              !.clock_events[id].invocations = @ + 1]
    /\ UNCHANGED << dm_vars, seq_vars, shared, arp, synths >>

\* SupriyaStudio.exit: sequencer.exit() is stop_playback(); then the mixer, the
\* MIDI port and the server are shut down.
StudioExit ==
    /\ studio.server_running
    /\ studio' = [SequencerStopPlayback(studio) EXCEPT !.server_running = FALSE]
    /\ UNCHANGED << dm_vars, seq_vars, shared, arp, synths >>

\* ================================== Part IV: a Track under its threads
\* The Track records on the '1/8' grid.
SharedDelta == Unit \div 8

\* List objects a reference is held to: by the dict, by the MIDI thread between
\* the subscript and the append, by the tick that iterates one.
SharedLive(dict, recording, playing) ==
    { dict[k] : k \in DOMAIN dict }
       \cup (IF recording # None /\ recording[1].list # None
             THEN { recording[1].list[1] } ELSE {})
       \cup (IF playing # None THEN { playing[1].list } ELSE {})

SharedCollect(lists, live) == [l \in DOMAIN lists \cap live |-> lists[l]]

\* Track.__init__ with is_recording set, and a track callback cued by
\* Track.start_playback.
SharedInit ==
    shared = [recorded_notes |-> [k \in {} |-> 0],  \* time -> list object
              lists |-> [l \in {} |-> << >>],       \* list object -> messages
              midi |-> None,         \* Some([message, list]): the message
                                     \* handle_midi_message is working on
              arrivals |-> 0,        \* messages handled so far
              tick |-> None,         \* Some([list, pos]): the callback's loop
              dispatched |-> << >>,  \* the instrument calls of the tick
              event |-> Some([invocations |-> 0, delta |-> SharedDelta])]

\* Track.handle_midi_message, first part: the instrument plays the message and
\* recorded_time is computed.  A message carries the number of its arrival.
SharedHandleMidiMessage(note) ==
    /\ shared.midi = None
    /\ shared.arrivals < MaxNotes
    /\ shared' = [shared EXCEPT
                    !.arrivals = @ + 1,
                    !.midi = Some([message |->
                                      [type |-> "note_on", note |-> note,
                                       time |-> (note % SEQUENCER_STEPS)
                                                   * SharedDelta,
                                       arrival |-> shared.arrivals + 1],
                                   list |-> None])]
    /\ UNCHANGED << dm_vars, seq_vars, studio, arp, synths >>

\* self.recorded_notes[recorded_time]: the defaultdict returns the list of the
\* key, inserting a new empty list when the key is missing.
SharedSubscript ==
    /\ shared.midi # None
    /\ shared.midi[1].list = None
    /\ LET key == shared.midi[1].message.time
           fresh == CHOOSE l \in 1..(MaxNotes + 2) : l \notin DOMAIN shared.lists
       IN  IF key \in DOMAIN shared.recorded_notes
           THEN shared' = [shared EXCEPT
                              !.midi[1].list = Some(shared.recorded_notes[key])]
           ELSE shared' = [shared EXCEPT
                              !.recorded_notes =
                                  [k \in DOMAIN @ \cup {key} |->
                                      IF k = key THEN fresh ELSE @[k]],
                              !.lists =
                                  [l \in DOMAIN @ \cup {fresh} |->
                                      IF l = fresh THEN << >> ELSE @[l]],
                              !.midi[1].list = Some(fresh)]
    /\ UNCHANGED << dm_vars, seq_vars, studio, arp, synths >>

\* A record that puts the message in front of the list.
SharedAppendInFront(list, message) == << message >> \o list

\* .append(recorded_sampler_note)
SharedAppendTo(list, message) == Append(list, message)

SharedAppend ==
    /\ shared.midi # None
    /\ shared.midi[1].list # None
    /\ LET l == shared.midi[1].list[1]
           lists1 == [shared.lists EXCEPT
                         ![l] = SharedAppendTo(@, shared.midi[1].message)]
       IN  shared' = [shared EXCEPT
                         !.midi = None,
                         !.lists = SharedCollect(lists1,
                                      SharedLive(shared.recorded_notes, None,
                                                 shared.tick))]
    /\ UNCHANGED << dm_vars, seq_vars, studio, arp, synths >>

\* Track.erase_recorded_notes, called by the menu thread: the dict is cleared,
\* the list objects are not.
SharedEraseRecordedNotes ==
    /\ shared' = [shared EXCEPT
                    !.recorded_notes = [k \in {} |-> 0],
                    !.lists = SharedCollect(@,
                                 SharedLive([k \in {} |-> 0], shared.midi,
                                            shared.tick))]
    /\ UNCHANGED << dm_vars, seq_vars, studio, arp, synths >>

\* Track.track_clock_callback up to the for loop: recorded_notes.get(index,
\* Rest).  On a Rest the callback returns its delta at once.
SharedTickGet ==
    /\ shared.tick = None
    /\ shared.event # None
    /\ shared.event[1].invocations < MaxInvocations
    /\ LET index == RecordedNotesIndex(shared.event[1].delta,
                                       shared.event[1].invocations)
       IN  IF index \in DOMAIN shared.recorded_notes
           THEN shared' = [shared EXCEPT
                              !.tick = Some([list |-> shared.recorded_notes[index],
                                             pos |-> 1]),
                              !.dispatched = << >>]
           ELSE shared' = [shared EXCEPT
                              !.dispatched = << >>,
                              !.event[1].invocations = @ + 1]
    /\ UNCHANGED << dm_vars, seq_vars, studio, arp, synths >>

\* One turn of `for sampler_note in sampler_notes`: the next element of the
\* list as it is now goes to the instrument; when the instrument raises, the
\* exception leaves the callback.  Past the end the callback returns its delta.
SharedTickNext(ok) ==
    /\ shared.tick # None
    /\ LET l == shared.tick[1].list
           pos == shared.tick[1].pos
           done == [shared EXCEPT !.tick = None]
           gone == SharedCollect(shared.lists,
                      SharedLive(shared.recorded_notes, shared.midi, None))
       IN  IF pos > Len(shared.lists[l])
           THEN /\ ok
                /\ shared' = [done EXCEPT !.lists = gone,
                                          !.event[1].invocations = @ + 1]
           ELSE IF ok
                THEN shared' = [shared EXCEPT
                                   !.dispatched = Append(@, shared.lists[l][pos]),
                                   !.tick[1].pos = @ + 1]
                ELSE shared' = [done EXCEPT !.lists = gone, !.event = None]
    /\ UNCHANGED << dm_vars, seq_vars, studio, arp, synths >>

\* =========================================================================
\* Part V - the clock arpeggiator (src/arpeggiator_clock/arpeggiator_clock.py)
\* =========================================================================

\* ------------------------------------------------- fractions and floats
RECURSIVE Gcd(_, _)
Gcd(a, b) == IF b = 0 THEN a ELSE Gcd(b, a % b)

\* fractions.Fraction(numerator, denominator): kept in lowest terms.
Fraction(n, d) ==
    [numerator |-> n \div Gcd(n, d), denominator |-> d \div Gcd(n, d)]

DigitChar(n) ==
    CASE n = 0 -> "0" [] n = 1 -> "1" [] n = 2 -> "2" [] n = 3 -> "3"
      [] n = 4 -> "4" [] n = 5 -> "5" [] n = 6 -> "6" [] n = 7 -> "7"
      [] n = 8 -> "8" [] n = 9 -> "9"

\* A string of one decimal digit or more.
IsDigits(s) ==
    Len(s) > 0 /\ \A i \in 1..Len(s) : s[i] \in { DigitChar(n) : n \in 0..9 }

\* What fractions.Fraction(s) raises for a string of digits and slashes: it
\* takes "n" and "n/d", and divides by d. None where it raises nothing.
FractionError(s) ==
    LET slashes == { i \in 1..Len(s) : s[i] = "/" }
    IN  IF slashes = {}
        THEN IF IsDigits(s) THEN None ELSE Some("ValueError")
        ELSE IF /\ Cardinality(slashes) = 1
                /\ IsDigits(SubSeq(s, 1, SlashAt(s) - 1))
                /\ IsDigits(SubSeq(s, SlashAt(s) + 1, Len(s)))
             THEN IF ParseInt(SubSeq(s, SlashAt(s) + 1, Len(s))) = 0
                  THEN Some("ZeroDivisionError")
                  ELSE None
             ELSE Some("ValueError")

\* fractions.Fraction("n/d"), fractions.Fraction("n")
FractionFromString(s) ==
    IF \E i \in 1..Len(s) : s[i] = "/"
    THEN Fraction(ParseInt(SubSeq(s, 1, SlashAt(s) - 1)),
                  ParseInt(SubSeq(s, SlashAt(s) + 1, Len(s))))
    ELSE Fraction(ParseInt(s), 1)

\* Fraction.__mul__
FractionMul(a, b) ==
    Fraction(a.numerator * b.numerator, a.denominator * b.denominator)

\* Bits of the significand of a Python float (an IEEE-754 double).
FloatBits == 53

\* p/q = (p'/q') * 2^e with 1 <= p'/q' < 2.
RECURSIVE Normalize(_, _, _)
Normalize(p, q, e) ==
    IF p >= 2 * q THEN Normalize(p, 2 * q, e + 1)
    ELSE IF p < q THEN Normalize(2 * p, q, e - 1)
    ELSE [p |-> p, q |-> q, exponent |-> e]

\* The next k bits of r/q (r < q), and what is left of r/q after them.
RECURSIVE Expand(_, _, _, _)
Expand(r, q, k, bits) ==
    IF k = 0 THEN [bits |-> bits, rem |-> r]
    ELSE LET b == IF 2 * r >= q THEN 1 ELSE 0
         IN  Expand(2 * r - b * q, q, k - 1, Append(bits, b))

\* The first FloatBits bits of p/q > 0, from its leading one.
Significand(p, q) ==
    LET nz == Normalize(p, q, 0)
        x == Expand(nz.p - nz.q, nz.q, FloatBits - 1, << 1 >>)
    IN  [exponent |-> nz.exponent, bits |-> x.bits, rem |-> x.rem, q |-> nz.q]

\* The significand one unit in the last place higher.
RECURSIVE Increment(_)
Increment(bits) ==
    IF bits = << >> THEN << >>
    ELSE IF bits[Len(bits)] = 0
         THEN [bits EXCEPT ![Len(bits)] = 1]
         ELSE Append(Increment(SubSeq(bits, 1, Len(bits) - 1)), 0)

NextFloat(f) ==
    IF \A i \in 1..FloatBits : f.bits[i] = 1
    THEN [exponent |-> f.exponent + 1,
          bits |-> [i \in 1..FloatBits |-> IF i = 1 THEN 1 ELSE 0]]
    ELSE [exponent |-> f.exponent, bits |-> Increment(f.bits)]

Zero == [exponent |-> 0, bits |-> [i \in 1..FloatBits |-> 0]]

\* float(fraction): the nearest double, a tie going to the even significand.
Float(fraction) ==
    IF fraction.numerator = 0 THEN Zero
    ELSE LET s == Significand(fraction.numerator, fraction.denominator)
             down == [exponent |-> s.exponent, bits |-> s.bits]
         IN  IF \/ 2 * s.rem > s.q
                \/ 2 * s.rem = s.q /\ s.bits[FloatBits] = 1
             THEN NextFloat(down)
             ELSE down

\* The converter without the test for "T".
QuantizationToBeatsPlain(token) ==
    Float(FractionFromString(RemoveT(token)))

\* quantization_to_beats; DrumMachine._quantization_to_beats has the same body.
quantization_to_beats(token) ==
    LET fraction == FractionFromString(RemoveT(token))
    IN  Float(IF HasT(token)
              THEN FractionMul(fraction, Fraction(2, 3))
              ELSE fraction)

\* --------------------------------------------------------- command line
RECURSIVE Decimal(_)
Decimal(n) ==
    IF n < 10 THEN << DigitChar(n) >>
    ELSE Decimal(n \div 10) \o << DigitChar(n % 10) >>

\* The token "n/d" or "n/dT".
Token(n, d, triplet) ==
    Decimal(n) \o << "/" >> \o Decimal(d)
        \o (IF triplet THEN << "T" >> ELSE << >>)

\* supriya.clocks.Quantization, the tokens verify_quantization lets through.
SupriyaQuantization ==
    { << "8", "M" >>, << "4", "M" >>, << "2", "M" >>, << "1", "M" >>,
      Token(1, 128, FALSE) }
    \cup { Token(1, d, t) : d \in { 2, 4, 8, 16, 32, 64 }, t \in BOOLEAN }

\* get_scale_degrees_indices; the notes of the arpeggio are named by them.
GetScaleDegreesIndices(direction) ==
    IF direction = "up" THEN << 0, 2, 4, 6 >>
    ELSE IF direction = "down" THEN << 6, 4, 2, 0 >>
    ELSE << 0, 2, 4, 6, 4, 2 >>

Directions == { "up", "down", "up-and-down" }

\* The options of one run: --quantization n/d[T], --direction, --repetitions.
ArpOptions(n, d, triplet, direction, repetitions) ==
    [n |-> n, d |-> d, triplet |-> triplet, direction |-> direction,
     repetitions |-> repetitions]

\* The defaults of the click options.
ArpDefaults == ArpOptions(1, 16, FALSE, "up", 0)

\* The process before start() has run.
ArpProcess(options, token) ==
    [options |-> options,
     quantization |-> token,
     pc |-> "start",
     notes |-> << >>,
     quantization_delta |-> None,
     converted |-> None,
     raised |-> None,
     future |-> FALSE,
     event |-> None,
     played |-> << >>,
     clock_is_running |-> FALSE,
     server_running |-> FALSE]

ArpInit(options) ==
    arp = ArpProcess(options, Token(options.n, options.d, options.triplet))

\* start() up to future.result(): the checks, the notes, server and clock,
\* the conversion, start_arpeggiator.
ArpStart ==
    /\ arp.pc = "start"
    /\ IF arp.quantization \notin SupriyaQuantization
       THEN arp' = [arp EXCEPT !.pc = "exit(1)"]
       ELSE arp' = [arp EXCEPT
                !.notes = GetScaleDegreesIndices(arp.options.direction),
                !.server_running = TRUE,
                !.clock_is_running = TRUE,
                !.quantization_delta =
                    Some(quantization_to_beats(arp.quantization)),
                !.event = Some([invocations |-> 0]),
                !.pc = "future.result()"]
    /\ UNCHANGED << dm_vars, seq_vars, studio, shared, synths >>

\* A call of quantization_to_beats by itself: it returns a float, or the
\* exception of fractions.Fraction leaves it.
ArpConvert ==
    /\ arp.converted = None
    /\ arp.raised = None
    /\ IF FractionError(RemoveT(arp.quantization)) = None
       THEN arp' = [arp EXCEPT !.converted =
                       Some(quantization_to_beats(arp.quantization))]
       ELSE arp' = [arp EXCEPT !.raised =
                       FractionError(RemoveT(arp.quantization))]
    /\ UNCHANGED << dm_vars, seq_vars, studio, shared, synths >>

\* The callback's test with only the repetitions in it.
ArpeggioDoneAfterIterations(iterations, invocations, notes) ==
    iterations # 0 /\ invocations = iterations

\* iterations != 0 and context.event.invocations == (iterations * len(notes))
ArpeggioDone(iterations, invocations, notes) ==
    iterations # 0 /\ invocations = iterations * Len(notes)

\* arpeggiator_clock_callback, run by the clock for the cued event.
ArpeggiatorClockCallback ==
    /\ arp.clock_is_running
    /\ arp.event # None
    /\ LET invocations == arp.event[1].invocations
           iterations == arp.options.repetitions
       IN  IF ArpeggioDone(iterations, invocations, arp.notes)
           THEN arp' = [arp EXCEPT !.future = TRUE, !.event = None]
           ELSE /\ invocations < (MaxRepetitions + 1) * 6
                /\ arp' = [arp EXCEPT
                      !.played = Append(@,
                          arp.notes[(invocations % Len(arp.notes)) + 1]),
                      !.event = Some([invocations |-> invocations + 1])]
    /\ UNCHANGED << dm_vars, seq_vars, studio, shared, synths >>

\* future.result() returns; stop_arpeggiator: cancel, clock.stop, server.quit,
\* exit(0).
StopArpeggiator ==
    /\ arp.pc = "future.result()"
    /\ arp.future
    /\ arp' = [arp EXCEPT !.event = None,
                          !.clock_is_running = FALSE,
                          !.server_running = FALSE,
                          !.pc = "exit(0)"]
    /\ UNCHANGED << dm_vars, seq_vars, studio, shared, synths >>

\* ================================== Part VI: the polyphonic MIDI synth
\* Notes played on the keyboard.
SynthPitches == { 60, 61 }

\* The script's state after initialize_supriya: `script` is the program run,
\* "midi_synth" or "midi_synth_effects"; notes is the dict of pitch to Synth;
\* nodes are the Synth objects added to the server, each with its pitch and
\* its gate, which is 1 until set(gate=0) releases it.
MidiSynthInit(script) ==
    synths = [script |-> script,
              notes |-> [p \in {} |-> 0],
              nodes |-> << >>,
              raised |-> None]

\* server.add_synth(synthdef=saw, frequency=...); notes[message.note] = synth
SynthNoteOn(s, note) ==
    [s EXCEPT !.nodes = Append(@, [note |-> note, gate |-> 1]),
              !.notes = [p \in DOMAIN @ \cup {note} |->
                            IF p = note THEN Len(s.nodes) + 1 ELSE @[p]]]

\* notes[message.note].set(gate=0); del notes[message.note]
SynthNoteOff(s, note) ==
    [s EXCEPT !.nodes[s.notes[note]].gate = 0,
              !.notes = [p \in DOMAIN @ \ {note} |-> @[p]]]

\* handle_midi_message of midi_synth.py, called by listen_for_midi_messages
\* for each pending message.
MidiSynthHandleMidiMessage(type, note) ==
    /\ synths.script = "midi_synth"
    /\ type = "note_on" => Len(synths.nodes) < MaxSynths
    /\ synths' =
          IF type = "note_on" THEN SynthNoteOn(synths, note)
          ELSE IF type = "note_off" /\ note \in DOMAIN synths.notes
          THEN SynthNoteOff(synths, note)
          ELSE synths
    /\ UNCHANGED << dm_vars, seq_vars, studio, shared, arp >>

\* handle_midi_message of midi_synth_effects.py: a note_off for a pitch that is
\* no key of notes raises KeyError, which leaves listen_for_midi_messages.
EffectsHandleMidiMessage(type, note) ==
    /\ synths.script = "midi_synth_effects"
    /\ synths.raised = None
    /\ type = "note_on" => Len(synths.nodes) < MaxSynths
    /\ synths' =
          IF type = "note_on" THEN SynthNoteOn(synths, note)
          ELSE IF type = "note_off"
          THEN IF note \in DOMAIN synths.notes
               THEN SynthNoteOff(synths, note)
               ELSE [synths EXCEPT !.raised = Some("KeyError")]
          ELSE synths
    /\ UNCHANGED << dm_vars, seq_vars, studio, shared, arp >>

\* ------------------------------------------------------- specifications
\* DrumMachine.__init__ / the script's module state after initialize_supriya
DrumMachineInit(v, tokens) ==
    /\ variant = v
    /\ sequencer_mode = "PERFORM"
    /\ recorded_notes = EmptyNotes
    /\ \E q \in tokens : quantization_delta = QuantizationToBeats(q)
    /\ clock_event_id = None
    /\ stop_listening_for_input = FALSE
    /\ clock_events = [e \in {} |-> 0]
    /\ next_event_id = 1
    /\ tick = None

\* Sequencer.__init__ with quantization q: one track per instrument, the first
\* instrument and its track selected.
SequencerInit(q) ==
    /\ quantization = q
    /\ seq_quantization_delta = QuantizationToBeats(q)
    /\ track_length_in_measures = ComputeTrackLengthInMeasures(q)[1]
    /\ is_recording = FALSE
    /\ tracks = [name \in Instruments |->
                    << CHOOSE i \in 1..Len(InstrumentNames) : InstrumentNames[i] = name >>]
    /\ track_objects = [i \in 1..Len(InstrumentNames) |->
                          NewTrack(InstrumentNames[i], 0,
                                   QuantizationToBeats(q), FALSE)]
    /\ selected_instrument = InstrumentNames[1]
    /\ selected_track = 1
    /\ playing_tracks = << >>
    /\ seq_clock_event_id = None
    /\ clock_is_running = FALSE
    /\ seq_clock_events = [e \in {} |-> 0]
    /\ seq_next_event_id = 1
    /\ sink = << >>
    /\ raised = None

Init ==
    /\ DrumMachineInit("class", Quantizations)
    /\ SequencerInit(Tok_1_8)
    /\ StudioInit
    /\ SharedInit
    /\ MidiSynthInit("midi_synth")
    /\ ArpInit(ArpDefaults)

InitScript ==
    /\ DrumMachineInit("script", Quantizations)
    /\ SequencerInit(Tok_1_8)
    /\ StudioInit
    /\ SharedInit
    /\ MidiSynthInit("midi_synth")
    /\ ArpInit(ArpDefaults)

\* run.py starts the sequencer with quantization '1/8'.
InitSeq ==
    /\ DrumMachineInit("class", {Tok_1_16})
    /\ SequencerInit(Tok_1_8)
    /\ StudioInit
    /\ SharedInit
    /\ MidiSynthInit("midi_synth")
    /\ ArpInit(ArpDefaults)

InitPlay ==
    /\ DrumMachineInit("class", {Tok_1_16})
    /\ \E q \in SeqQuantizations : SequencerInit(q)
    /\ StudioInit
    /\ SharedInit
    /\ MidiSynthInit("midi_synth")
    /\ ArpInit(ArpDefaults)

Next ==
    \/ \E command \in Commands : ConsumeKeyboardInput(command)
    \/ \E type \in MessageTypes, note \in DrumPitches : ListenForMidiMessages(type, note)
    \/ \E id \in 1..MaxEvents : CallbackBegin(id)
    \/ CallbackDispatch
    \/ CallbackReturn

\* Recording: the MIDI thread and the menu commands that touch recorded notes.
NextRecord ==
    \/ \E note \in RecordPitches : SeqHandleMidiMessage("note_on", note)
    \/ \E type \in { "control_change", "program_change" } :
          SeqHandleMidiMessage(type, 1)
    \/ StartRecording
    \/ StopRecording
    \/ \E q \in SeqQuantizations : SetQuantization(q)
    \/ \E t \in 1..MaxTracks : EraseRecordedNotes(t)
    \/ AddTrack(selected_instrument)
    \/ \E name \in Instruments, n \in 0..MaxTracks :
          n < Len(tracks[name]) /\ SetSelectedTrackByTrackNumber(name, n)

\* Track management: the menu commands that add, delete and select.
NextTracks ==
    \/ \E name \in Instruments : AddTrack(name)
    \/ \E name \in Instruments, n \in 0..MaxTracks :
          n < Len(tracks[name]) /\ DeleteTrack(name, n)
    \/ \E name \in Instruments : SetSelectedInstrumentByName(name)
    \/ \E name \in Instruments, n \in 0..MaxTracks :
          n < Len(tracks[name]) /\ SetSelectedTrackByTrackNumber(name, n)

\* A recording session: the MIDI thread, the recording switch and the menu
\* commands that add, delete and select.
NextSession ==
    \/ \E type \in { "note_on", "control_change" }, note \in { 0, 17 } :
          SeqHandleMidiMessage(type, note)
    \/ StartRecording
    \/ StopRecording
    \/ \E name \in Instruments : AddTrack(name)
    \/ \E name \in Instruments, n \in 0..MaxTracks :
          n < Len(tracks[name]) /\ DeleteTrack(name, n)
    \/ \E name \in Instruments : SetSelectedInstrumentByName(name)
    \/ \E name \in Instruments, n \in 0..MaxTracks :
          n < Len(tracks[name]) /\ SetSelectedTrackByTrackNumber(name, n)

\* Playback: the menu commands and the clock thread.
NextPlay ==
    \/ \E name \in Instruments : AddTrack(name)
    \/ \E name \in Instruments, n \in 0..MaxTracks :
          n < Len(tracks[name]) /\ DeleteTrack(name, n)
    \/ SeqStartPlayback
    \/ SeqStopPlayback
    \/ \E id \in 1..MaxCues : SequencerClockCallback(id)
    \/ \E id \in 1..MaxCues : TrackClockCallback(id)

\* The drum machine of drum_machine.py
\* Names a selection command is given: the keys of instruments and one name
\* that is no key.
InstrumentKeys == Instruments \cup { "TB-303" }

\* Selection by any name and number, while tracks are added and deleted.
NextSelect ==
    \/ \E name \in Instruments : AddTrack(name)
    \/ \E name \in Instruments, n \in 0..MaxTracks :
          n < Len(tracks[name]) /\ DeleteTrack(name, n)
    \/ \E name \in InstrumentKeys : SetSelectedInstrumentByName(name)
    \/ \E name \in InstrumentKeys, n \in 0..MaxTracks :
          SetSelectedTrackByTrackNumber(name, n)

\* Starting and stopping playback while tracks are added: the menu thread and
\* the clock thread.
NextStop ==
    \/ \E name \in Instruments : AddTrack(name)
    \/ SeqStartPlayback
    \/ SeqStopPlayback
    \/ \E id \in 1..MaxCues : SequencerClockCallback(id)
    \/ \E id \in 1..MaxCues : TrackClockCallback(id)

\* The sampler studio: the menu commands, the MIDI thread, the clock thread and
\* the monitor threads.
StudioPitches == { 17 }

NextStudio ==
    \/ StudioAddTrack
    \/ \E n \in 0..MaxTrackNotes : StudioSetSelectedTrackByTrackNumber(n)
    \/ StudioStartSequencing
    \/ StudioStopSequencing
    \/ \E note \in StudioPitches : StudioHandleNoteOn(note)
    \/ \E n \in 0..MaxTrackNotes : StudioEraseTrack(n)
    \/ StudioStartPlayback
    \/ StudioStopPlayback
    \/ StudioMonitorClockCallback
    \/ \E id \in 1..MaxEvents : StudioSequencerClockCallback(id)
    \/ StudioExit

\* A Track while it records and plays: the MIDI thread, the menu thread and the
\* clock thread, the instrument failing or not.
NextShared ==
    \/ \E note \in RecordPitches : SharedHandleMidiMessage(note)
    \/ SharedSubscript
    \/ SharedAppend
    \/ SharedEraseRecordedNotes
    \/ SharedTickGet
    \/ \E ok \in BOOLEAN : SharedTickNext(ok)

Spec == Init /\ [][Next]_vars

\* The script midi_drum_sequencer.py
SpecScript == InitScript /\ [][Next]_vars

\* The multi-instrument sequencer of src/sampler_sequencer: recording
SpecRecord == InitSeq /\ [][NextRecord]_vars

\* The multi-instrument sequencer of src/sampler_sequencer: track management
SpecTracks == InitSeq /\ [][NextTracks]_vars

\* The multi-instrument sequencer of src/sampler_sequencer: a recording session
SpecSession == InitSeq /\ [][NextSession]_vars

\* The multi-instrument sequencer of src/sampler_sequencer: playback
SpecPlay == InitPlay /\ [][NextPlay]_vars

\* The multi-instrument sequencer of src/sampler_sequencer: selection
SpecSelect == InitSeq /\ [][NextSelect]_vars

\* The multi-instrument sequencer of src/sampler_sequencer: start and stop
SpecStop == InitPlay /\ [][NextStop]_vars

\* One Track of src/sampler_sequencer under the MIDI, menu and clock threads
SpecShared == InitSeq /\ [][NextShared]_vars

\* The sampler studio of src/sampler
SpecStudio == InitSeq /\ [][NextStudio]_vars

\* quantization_to_beats called with the well-formed tokens n/d and n/dT.
InitConvert ==
    /\ DrumMachineInit("class", {Tok_1_16})
    /\ SequencerInit(Tok_1_8)
    /\ StudioInit
    /\ SharedInit
    /\ MidiSynthInit("midi_synth")
    /\ \E n \in 1..MaxNumerator, d \in 1..MaxDenominator, triplet \in BOOLEAN :
          ArpInit(ArpOptions(n, d, triplet, "up", 0))

NextConvert == ArpConvert

SpecConvert == InitConvert /\ [][NextConvert]_vars

\* Runs of the clock arpeggiator; "1/5" is a token the program refuses.
InitArp ==
    /\ DrumMachineInit("class", {Tok_1_16})
    /\ SequencerInit(Tok_1_8)
    /\ StudioInit
    /\ SharedInit
    /\ MidiSynthInit("midi_synth")
    /\ \E q \in { << 16, FALSE >>, << 8, TRUE >>, << 5, FALSE >> },
          direction \in Directions, repetitions \in 0..MaxRepetitions :
          ArpInit(ArpOptions(1, q[1], q[2], direction, repetitions))

NextArp ==
    \/ ArpStart
    \/ ArpeggiatorClockCallback
    \/ StopArpeggiator

SpecArp == InitArp /\ [][NextArp]_vars

\* The tokens QuantizationValidator accepts that hold a "/"; those in "M"
\* are whole measures.
ValidatedQuantizations ==
    { t \in SupriyaQuantization : \E i \in 1..Len(t) : t[i] = "/" }

\* The quantization is changed from the menu while the sequencer plays.
NextQuantize ==
    \/ \E q \in ValidatedQuantizations : SetQuantization(q)
    \/ SeqStartPlayback
    \/ SeqStopPlayback
    \/ \E id \in 1..MaxCues : SequencerClockCallback(id)

SpecQuantize == InitSeq /\ [][NextQuantize]_vars

\* Multi-track playback while tracks are added to the first instrument and
\* deleted from any.
NextMeasures ==
    \/ AddTrack(InstrumentNames[1])
    \/ \E name \in Instruments, n \in 0..MaxTracks :
          n < Len(tracks[name]) /\ DeleteTrack(name, n)
    \/ SeqStartPlayback
    \/ SeqStopPlayback
    \/ \E id \in 1..MaxCues : SequencerClockCallback(id)
    \/ \E id \in 1..MaxCues : TrackClockCallback(id)

SpecMeasures == InitPlay /\ [][NextMeasures]_vars

\* The track list of the sampler's Sequencer under the track commands.
NextTrackList ==
    \/ StudioAddTrack
    \/ \E n \in 0..(MaxTracks - 1) : StudioCopyTrack(n)
    \/ \E n \in 0..(MaxTracks - 1) : StudioDeleteTrack(n)
    \/ \E n \in 0..(MaxTracks - 1) : StudioSetSelectedTrackByTrackNumber(n)
    \/ \E n \in 0..(MaxTracks - 1) : StudioEraseTrack(n)
    \/ StudioStartSequencing
    \/ \E note \in StudioPitches : StudioHandleNoteOn(note)

SpecTrackList == InitSeq /\ [][NextTrackList]_vars

\* The drum machine started with '1/16' and played on the pads 2 and 3.
NextPad ==
    \/ \E command \in Commands : ConsumeKeyboardInput(command)
    \/ \E type \in MessageTypes, note \in { 2, 3 } :
          ListenForMidiMessages(type, note)
    \/ \E id \in 1..MaxEvents : CallbackBegin(id)
    \/ CallbackDispatch
    \/ CallbackReturn

SpecPad == InitSeq /\ [][NextPad]_vars

\* ============================================================ properties
\* A property of the form [][vars' # vars => A]_vars is [][A]_vars: a step that
\* changes nothing satisfies either; the test spares evaluating A on the many
\* commands that leave the state as it is.
\* ----------------------------------------------------------------- C1
\* C1: in the drum-machine command loop the mode is always one of PERFORM,
\* RECORD, PLAYBACK and no step changes it directly from RECORD to PLAYBACK.
C1_ModeExclusivity ==
    [][/\ sequencer_mode' \in SequencerMode
       /\ ~(sequencer_mode = "RECORD" /\ sequencer_mode' = "PLAYBACK")]_vars

\* ----------------------------------------------------------------- C2
\* C2: after stop_playback has returned (the mode is no longer PLAYBACK) no
\* further tick is entered; a tick in flight may complete.
C2_NoTickAfterStop ==
    [][(tick = None /\ tick' # None) => sequencer_mode = "PLAYBACK"]_vars

\* ----------------------------------------------------------------- C3
\* The list of step map `notes` under `key`, empty when the key is absent.
ListAt(notes, key) == IF key \in DOMAIN notes THEN notes[key] ELSE << >>

\* C3: whenever the list under a key of a Track's step map grows, it grows by
\* one note p stored with time = key = (p mod SEQUENCER_STEPS) * delta, delta
\* being the track's quantization delta at that moment; and a note-on handled
\* by a recording track is stored in that way.
C3_StepDeterminism ==
    [][vars' # vars =>
        (/\ \A t \in DOMAIN track_objects \cap DOMAIN track_objects' :
              \A key \in DOMAIN track_objects'[t].recorded_notes :
                 LET old == ListAt(track_objects[t].recorded_notes, key)
                     new == track_objects'[t].recorded_notes[key]
                 IN  Len(new) > Len(old) =>
                        /\ Len(new) = Len(old) + 1
                        /\ SubSeq(new, 1, Len(old)) = old
                        /\ new[Len(new)].type = "note_on"
                        /\ new[Len(new)].time = key
                        /\ key = (new[Len(new)].note % SEQUENCER_STEPS)
                                    * track_objects[t].quantization_delta
         /\ \A p \in Pitches :
              (/\ SeqHandleMidiMessage("note_on", p)
               /\ is_recording
               /\ track_objects[selected_track].is_recording)
              => LET key == (p % SEQUENCER_STEPS)
                               * track_objects[selected_track].quantization_delta
                     new == ListAt(track_objects'[selected_track].recorded_notes, key)
                 IN  /\ new # << >>
                     /\ new[Len(new)].note = p
                     /\ Len(new) = Len(ListAt(track_objects[selected_track].recorded_notes,
                                              key)) + 1)
      ]_vars

\* Pitch 17 recorded on step 1 of the '1/16' grid, the quantization having
\* been changed before.
C3_Witness ==
    \E t \in DOMAIN track_objects :
       /\ track_objects[t].quantization_delta = QuantizationToBeats(Tok_1_16)
       /\ QuantizationToBeats(Tok_1_16) \in DOMAIN track_objects[t].recorded_notes
       /\ \E j \in 1..Len(track_objects[t].recorded_notes[QuantizationToBeats(Tok_1_16)]) :
             track_objects[t].recorded_notes[QuantizationToBeats(Tok_1_16)][j].note = 17

\* ----------------------------------------------------------------- C4
\* C4: the tick with invocation index i reads the step map at
\* (i mod SEQUENCER_STEPS) * quantization_delta, the key recording uses for
\* that step, and every message it dispatches was recorded on that step.
C4_PlaybackOnRecordingGrid ==
    tick # None =>
       /\ tick[1].key = (tick[1].invocations % SEQUENCER_STEPS) * quantization_delta
       /\ \A j \in 1..Len(tick[1].list) :
             tick[1].list[j].note % SEQUENCER_STEPS
                = tick[1].invocations % SEQUENCER_STEPS

\* ----------------------------------------------------------------- C5
\* C5: a cued playback callback leaves the clock's queue only in a step of the
\* command loop that calls stop_playback on its handle (the mode leaves
\* PLAYBACK); a step of the clock thread never removes it, and a tick that
\* returns re-queues its callback with the next invocation index.
C5_PlaybackNeverEndsByItself ==
    [][\A id \in DOMAIN clock_events :
          \/ /\ id \in DOMAIN clock_events'
             /\ clock_events'[id].invocations >= clock_events[id].invocations
             /\ (tick # None /\ tick[1].id = id /\ tick' = None)
                   => clock_events'[id].invocations
                         = clock_events[id].invocations + 1
          \/ /\ id \notin DOMAIN clock_events'
             /\ clock_event_id = Some(id)
             /\ sequencer_mode = "PLAYBACK"
             /\ sequencer_mode' # "PLAYBACK"
      ]_vars

\* Playback with a recorded step has ticked as often as the bound allows.
C5_Witness ==
    /\ sequencer_mode = "PLAYBACK"
    /\ CountNotes(recorded_notes) > 0
    /\ \E id \in DOMAIN clock_events :
          clock_events[id].invocations = MaxInvocations

\* ----------------------------------------------------------------- C6
\* The longest per-instrument track list.
LongestTrackList(tr) ==
    CHOOSE n \in 0..MaxTracks :
       /\ \E name \in Instruments : Len(tr[name]) = n
       /\ \A name \in Instruments : Len(tr[name]) <= n

\* C6: when the sequencer callback runs for a measure index that is no valid
\* index of the longest per-instrument track list, playback terminates: no
\* sequencer callback and no track callback remains scheduled.
C6_ArrangementTerminates ==
    [][\A id \in 1..MaxCues :
          (/\ SequencerClockCallback(id)
           /\ seq_clock_events[id].invocations % track_length_in_measures = 0
           /\ seq_clock_events[id].invocations \div track_length_in_measures
                 >= LongestTrackList(tracks))
          => DOMAIN seq_clock_events' = {}
      ]_vars

\* ----------------------------------------------------------------- C7
\* C7: each key of a Track's step map is k * delta of the track's current
\* quantization_delta, 0 <= k < SEQUENCER_STEPS.
C7_KeysOnCurrentGrid ==
    \A t \in DOMAIN track_objects :
       \A key \in DOMAIN track_objects[t].recorded_notes :
          \E k \in 0..(SEQUENCER_STEPS - 1) :
             key = k * track_objects[t].quantization_delta

\* C7 as the code has it: each key of a Track's step map holds at least one
\* note, every note under it carries the key as its time, and the key is
\* (p mod SEQUENCER_STEPS) * delta for the note's pitch p and the delta of one
\* of the quantizations the sequencer is set to - the one in force when the
\* note was recorded, not necessarily the current one.
C7_KeysOnRecordedGrid ==
    \A t \in DOMAIN track_objects :
       \A key \in DOMAIN track_objects[t].recorded_notes :
          /\ track_objects[t].recorded_notes[key] # << >>
          /\ \A j \in 1..Len(track_objects[t].recorded_notes[key]) :
                LET m == track_objects[t].recorded_notes[key][j]
                IN  /\ m.time = key
                    /\ \E q \in SeqQuantizations :
                          key = (m.note % SEQUENCER_STEPS) * QuantizationToBeats(q)

\* A note recorded on the '1/16' grid is kept under its key by a track whose
\* quantization is '1/8' now.
C7_Witness ==
    \E t \in DOMAIN track_objects :
       /\ track_objects[t].quantization_delta = QuantizationToBeats(Tok_1_8)
       /\ QuantizationToBeats(Tok_1_16) \in DOMAIN track_objects[t].recorded_notes

\* ----------------------------------------------------------------- C8
\* C8: selected_track is an element of tracks[selected_instrument.name].
C8_SelectedTrackListed ==
    \E i \in 1..Len(tracks[selected_instrument]) :
       tracks[selected_instrument][i] = selected_track

\* ----------------------------------------------------------------- C9
\* C9: for every instrument the track at list position i has track_number i.
C9_TrackNumbers ==
    \A name \in Instruments :
       \A i \in 1..Len(tracks[name]) :
          track_objects[tracks[name][i]].track_number = i - 1

\* The first track of an instrument has been deleted and the track added after
\* it is at position 0 now.
C9_Witness ==
    \E name \in Instruments :
       /\ Len(tracks[name]) >= 1
       /\ tracks[name][1] > Len(InstrumentNames)
       /\ track_objects[tracks[name][1]].track_number = 0

\* ---------------------------------------------------------------- C10
\* C10: the stored playback handle is non-null only while playback is active:
\* it is null whenever the mode is not PLAYBACK.
C10_HandleOnlyWhilePlaying ==
    sequencer_mode # "PLAYBACK" => clock_event_id = None

\* C10 as the code has it: the handle is null exactly until the first
\* start_playback; from then on it holds the id of the callback cued last,
\* also after stop_playback and in every mode.
C10_HandleOfLastCue ==
    /\ clock_event_id = None <=> next_event_id = 1
    /\ clock_event_id # None => clock_event_id = Some(next_event_id - 1)

\* Playback has been stopped: no callback is queued, the mode is PERFORM and
\* the handle is still set.
C10_Witness ==
    /\ sequencer_mode = "PERFORM"
    /\ DOMAIN clock_events = {}
    /\ clock_event_id # None

C12_DispatchOnceStoreIffRecording ==
    [][vars' # vars =>
        (\A p \in Pitches :
            SeqHandleMidiMessage("note_on", p) =>
               /\ sink' = << [instrument |->
                                 IF is_recording
                                 THEN track_objects[selected_track].instrument
                                 ELSE selected_instrument,
                              type |-> "note_on", note |-> p] >>
               /\ IF is_recording
                  THEN CountNotes(track_objects'[selected_track].recorded_notes)
                          = CountNotes(track_objects[selected_track].recorded_notes) + 1
                  ELSE track_objects' = track_objects)
      ]_vars

\* ---------------------------------------------------------------- C13
\* C13: a control-change or program-change message handled by the sequencer
\* changes no Track - no step map gets an entry - whether the sequencer is
\* recording or not; the message only reaches the instrument.
C13_ControlMessagesNotRecorded ==
    [][vars' # vars =>
        (\A type \in { "control_change", "program_change" }, p \in Pitches :
            SeqHandleMidiMessage(type, p) =>
               /\ track_objects' = track_objects
               /\ Len(sink') = 1
               /\ sink'[1].type = type)
      ]_vars

\* A control change has been handled by a selected track that is recording.
C13_Witness ==
    /\ is_recording
    /\ track_objects[selected_track].is_recording
    /\ sink # << >>
    /\ sink[1].type = "control_change"
    /\ sink[1].instrument = track_objects[selected_track].instrument

\* ---------------------------------------------------------------- C14
\* C14: a playback tick that finds no recorded events for its step leaves the
\* step map as it was, its set of keys included.
C14_TickOnRestLeavesStepMap ==
    [][(tick = None /\ tick' # None /\ tick'[1].list = << >>)
          => recorded_notes' = recorded_notes]_vars

\* ---------------------------------------------------------------- C15
\* C15: a change of the sequencer's quantization leaves the recorded step map
\* of every track as it was (same keys, same events in the same order) and sets
\* the quantization delta of the sequencer and of its tracks to the new value.
C15_QuantizationKeepsRecordedNotes ==
    [][vars' # vars =>
        (\A q \in SeqQuantizations :
            SetQuantization(q) =>
               /\ DOMAIN track_objects' = DOMAIN track_objects
               /\ \A t \in DOMAIN track_objects :
                     /\ track_objects'[t].recorded_notes = track_objects[t].recorded_notes
                     /\ t \in ListedTracks(tracks) =>
                           track_objects'[t].quantization_delta = QuantizationToBeats(q)
               /\ seq_quantization_delta' = QuantizationToBeats(q))
      ]_vars

\* The quantization is '1/8' and pitch 17, recorded under '1/16', is still
\* stored under step 1 of the '1/16' grid.
C15_Witness ==
    /\ quantization = Tok_1_8
    /\ seq_quantization_delta = QuantizationToBeats(Tok_1_8)
    /\ \E t \in DOMAIN track_objects :
          /\ QuantizationToBeats(Tok_1_16) \in DOMAIN track_objects[t].recorded_notes
          /\ track_objects[t].recorded_notes[QuantizationToBeats(Tok_1_16)][1].note = 17

\* ---------------------------------------------------------------- C16
\* C16: erase leaves the track as a freshly created one with the same
\* instrument, number, delta and recording flag: every step lookup returns no
\* events, and a note-on p it records next is the only entry of its step map,
\* under (p mod SEQUENCER_STEPS) * delta.
C16_EraseThenRecord ==
    [][vars' # vars =>
        (\A t \in 1..MaxTracks :
            EraseRecordedNotes(t) =>
               LET before == track_objects[t]
                   after == track_objects'[t]
               IN  /\ after = [NewTrack(before.instrument, before.track_number,
                                        before.quantization_delta, before.is_recording)
                                 EXCEPT !.clock_event_id = before.clock_event_id]
                   /\ \A i \in 0..(SEQUENCER_STEPS - 1) :
                         TrackNotesAt(after, after.quantization_delta, i) = << >>
                   /\ \A p \in Pitches :
                         LET key == (p % SEQUENCER_STEPS) * after.quantization_delta
                             notes == TrackHandleMidiMessage(
                                         [after EXCEPT !.is_recording = TRUE],
                                         Message("note_on", p)).recorded_notes
                         IN  /\ DOMAIN notes = { key }
                             /\ Len(notes[key]) = 1
                             /\ notes[key][1].note = p
                             /\ notes[key][1].time = key)
      ]_vars

\* The last note-on went through a track of the instrument that is not the
\* selected one, so it was handled while recording and stored; no track holds
\* a note now: the recording has been erased, and recording is still on.
C16_Witness ==
    /\ is_recording
    /\ track_objects[selected_track].is_recording
    /\ sink # << >>
    /\ sink[1].type = "note_on"
    /\ sink[1].instrument # selected_instrument
    /\ CountAll(track_objects, DOMAIN track_objects) = 0

\* ---------------------------------------------------------------- C17
\* C17: the CLEAR command read while the mode is RECORD empties the step map,
\* leaves the mode RECORD and leaves the clock's queue and the stored handle
\* as they were: no callback is cued and none is cancelled.
C17_ClearInRecord ==
    [][(ConsumeKeyboardInput("CLEAR") /\ sequencer_mode = "RECORD") =>
          /\ recorded_notes' = EmptyNotes
          /\ sequencer_mode' = "RECORD"
          /\ clock_events' = clock_events
          /\ clock_event_id' = clock_event_id
          /\ next_event_id' = next_event_id
          /\ ~stop_listening_for_input'
      ]_vars

\* The mode is RECORD and the step map is empty, while a tick that is still in
\* flight holds the list of recorded notes it read before the map was cleared.
C17_Witness ==
    /\ sequencer_mode = "RECORD"
    /\ recorded_notes = EmptyNotes
    /\ tick # None
    /\ ~tick[1].attached
    /\ tick[1].list # << >>

\* ---------------------------------------------------------------- C18
\* C18: the STOP command read in RECORD mode goes to PERFORM and leaves the
\* step map as it was; a MIDI message handled in PERFORM mode, from the MIDI
\* port or from a playback tick, leaves the step map as it was.
C18_RecordedNotesPersist ==
    [][/\ (ConsumeKeyboardInput("STOP") /\ sequencer_mode = "RECORD") =>
             (sequencer_mode' = "PERFORM" /\ recorded_notes' = recorded_notes)
       /\ (/\ sequencer_mode = "PERFORM"
           /\ \/ \E type \in MessageTypes, note \in DrumPitches :
                    ListenForMidiMessages(type, note)
              \/ CallbackDispatch)
          => recorded_notes' = recorded_notes
      ]_vars

\* Notes were recorded, playback was never started, and the mode is PERFORM.
C18_Witness ==
    /\ sequencer_mode = "PERFORM"
    /\ CountNotes(recorded_notes) > 0
    /\ next_event_id = 1

\* ---------------------------------------------------------------- C19
\* C19: a start_playback of the sampler studio called while the clock is
\* stopped starts the clock and cues the playback callback exactly when some
\* track holds recorded notes, and changes nothing when no track does.
C19_StartsIffAnyTrackRecorded ==
    (/\ studio.last_start_playback # None
     /\ ~studio.last_start_playback[1].was_running)
    => /\ studio.last_start_playback[1].scheduled
             <=> studio.last_start_playback[1].recorded
       /\ ~studio.last_start_playback[1].recorded
             => ~studio.last_start_playback[1].changed

\* ---------------------------------------------------------------- C20
\* C20: once EXIT has shut the MIDI port and the server down, the clock holds
\* no queued playback callback: exit cancelled whatever was cued.
C20_ExitCancelsCallbacks ==
    stop_listening_for_input => DOMAIN clock_events = {}

\* ---------------------------------------------------------------- C21
\* C21: record and playback tick exclude each other: while handle_midi_message
\* holds the list of a step to append to it, no tick is inside its loop over
\* that list.
C21_TickAndRecordSerialized ==
    ~(/\ shared.tick # None
      /\ shared.midi # None
      /\ shared.midi[1].list = Some(shared.tick[1].list))

\* ---------------------------------------------------------------- C22
\* C22: when the instrument raises on one note of a tick, the tick goes on to
\* the next note of the step and its callback stays queued for the ticks to
\* come.
C22_FailedDispatchKeepsTicking ==
    [][SharedTickNext(FALSE) =>
          /\ shared'.tick # None
          /\ shared'.tick[1].pos = shared.tick[1].pos + 1
          /\ shared'.event # None
      ]_vars

\* ---------------------------------------------------------------- C26
\* Messages in the order of their arrival.
InArrivalOrder(list) ==
    \A i, j \in 1..Len(list) : i < j => list[i].arrival < list[j].arrival

\* C26: the list of every step holds its messages in the order in which they
\* arrived, every message under the time of its step, and a tick has sent the
\* instrument the first messages of its list, in the list's order.
C26_ArrivalOrderKeptAndPlayed ==
    /\ \A l \in DOMAIN shared.lists : InArrivalOrder(shared.lists[l])
    /\ \A k \in DOMAIN shared.recorded_notes :
          \A i \in 1..Len(shared.lists[shared.recorded_notes[k]]) :
             shared.lists[shared.recorded_notes[k]][i].time = k
    /\ InArrivalOrder(shared.dispatched)
    /\ shared.tick # None =>
          shared.dispatched = SubSeq(shared.lists[shared.tick[1].list], 1,
                                     shared.tick[1].pos - 1)

\* A tick has played two different notes of one step, the second of which
\* arrived second.
C26_Witness ==
    /\ Len(shared.dispatched) = 2
    /\ shared.dispatched[1].note # shared.dispatched[2].note
    /\ shared.dispatched[1].time = shared.dispatched[2].time
    /\ shared.dispatched[2].arrival = 2

\* ---------------------------------------------------------------- C23
\* C23: a selection command given a name that is no key of instruments raises
\* to its caller and leaves the selected instrument and the selected track as
\* they were.
C23_UnknownInstrumentRaises ==
    [][vars' # vars =>
        (\A name \in InstrumentKeys \ Instruments :
            /\ SetSelectedInstrumentByName(name) =>
                  /\ raised' # None
                  /\ selected_instrument' = selected_instrument
                  /\ selected_track' = selected_track
            /\ \A n \in 0..MaxTracks :
                  SetSelectedTrackByTrackNumber(name, n) =>
                     /\ raised' # None
                     /\ selected_instrument' = selected_instrument
                     /\ selected_track' = selected_track)
      ]_vars

\* A selection of a track by a name that is no key has raised, after an
\* instrument and a track other than the first ones had been selected.
C23_Witness ==
    /\ raised = Some("IndexError")
    /\ "TB-303" \in DOMAIN tracks
    /\ selected_instrument = InstrumentNames[2]
    /\ Len(tracks[InstrumentNames[1]]) >= 1
    /\ selected_track # tracks[InstrumentNames[1]][1]

\* ---------------------------------------------------------------- C24
\* The float f is the fraction p/q: the binary expansion of p/q ends within
\* the significand and f holds it.
FloatIsFraction(f, p, q) ==
    LET s == Significand(p, q)
    IN  f.exponent = s.exponent /\ f.bits = s.bits /\ s.rem = 0

\* The float f is at most half a unit in the last place away from p/q.
FloatNearFraction(f, p, q) ==
    LET s == Significand(p, q)
        down == [exponent |-> s.exponent, bits |-> s.bits]
    IN  \/ f = down /\ 2 * s.rem <= s.q
        \/ f = NextFloat(down) /\ 2 * s.rem >= s.q

RECURSIVE IsPowerOfTwo(_)
IsPowerOfTwo(n) == n = 1 \/ (n % 2 = 0 /\ IsPowerOfTwo(n \div 2))

\* The value the token of this run stands for: n/d, or (n/d) * (2/3), as a
\* pair of numerator and denominator.
TokenValue ==
    IF arp.options.triplet
    THEN << 2 * arp.options.n, 3 * arp.options.d >>
    ELSE << arp.options.n, arp.options.d >>

\* C24 as stated: for every well-formed token "n/d" the converter returns
\* exactly n/d beats, and for "n/dT" exactly (n/d) * (2/3) beats.
C24_ReturnsExactFraction ==
    arp.converted # None =>
        FloatIsFraction(arp.converted[1], TokenValue[1], TokenValue[2])

\* C24 amended: the converter returns the double nearest to n/d, or to
\* (n/d) * (2/3) for "n/dT": at most half a unit in the last place away from
\* it, and exactly it when, and only when, the value in lowest terms has a
\* power of two as its denominator.
C24_ReturnsNearestFloat ==
    arp.converted # None =>
        /\ FloatNearFraction(arp.converted[1], TokenValue[1], TokenValue[2])
        /\ FloatIsFraction(arp.converted[1], TokenValue[1], TokenValue[2])
              <=> IsPowerOfTwo(TokenValue[2]
                                  \div Gcd(TokenValue[1], TokenValue[2]))

\* "1/8T" converted: a float next to 1/12 that is not 1/12.
C24_Witness ==
    /\ arp.quantization = Tok_1_8T
    /\ arp.converted # None
    /\ FloatNearFraction(arp.converted[1], 1, 12)
    /\ ~FloatIsFraction(arp.converted[1], 1, 12)

\* ---------------------------------------------------------------- C27
\* C27: with repetitions r > 0 and n notes the callback plays exactly r * n
\* notes, invocation i playing notes[i mod n]; it then is not queued again
\* and the future is completed, after which the program stops the clock and
\* quits the server; with r = 0 the callback stays queued and the future is
\* never completed.
C27_PlaysRepetitionsTimesNotes ==
    LET r == arp.options.repetitions
        n == Len(arp.notes)
        started == arp.pc \in { "future.result()", "exit(0)" }
    IN  /\ \A i \in 1..Len(arp.played) :
              arp.played[i] = arp.notes[((i - 1) % n) + 1]
        /\ r > 0 => Len(arp.played) <= r * n
        /\ arp.future => r > 0 /\ Len(arp.played) = r * n /\ arp.event = None
        /\ started /\ arp.event = None => arp.future
        /\ arp.pc = "exit(0)" =>
              /\ arp.future
              /\ ~arp.clock_is_running
              /\ ~arp.server_running
        /\ started /\ r = 0 => arp.event # None /\ arp.pc = "future.result()"

\* Two repetitions of the six notes of "up-and-down" played, and the program
\* gone.
C27_Witness ==
    /\ arp.pc = "exit(0)"
    /\ arp.options.repetitions = 2
    /\ Len(arp.notes) = 6
    /\ Len(arp.played) = 12

\* ---------------------------------------------------------------- C25
\* self.recorded_notes[time] read without creating the key.
EventsAt(notes, time) == IF time \in DOMAIN notes THEN notes[time] ELSE << >>

\* The recorded NoteOns with pitch 3, as on_note_on stores them under `time`.
RecordedPitch3(notes, time) ==
    SelectSeq(EventsAt(notes, time), LAMBDA m : m.note = 3)

\* C25 as stated: with "1/16" the quantization delta is 0.25, and a recorded
\* NoteOn with pitch 3 is found at step-time 0.75.
C25_StoredAtThreeQuarters ==
    (\E t \in DOMAIN recorded_notes : RecordedPitch3(recorded_notes, t) # << >>)
        => /\ quantization_delta = Unit \div 4
           /\ RecordedPitch3(recorded_notes, 3 * (Unit \div 4)) # << >>

\* C25 amended: with "1/16" and 16 steps the quantization delta is 0.0625
\* (1/16), and a NoteOn with pitch 3 recorded in RECORD mode is stored at
\* step-time 0.1875 (3/16): a lookup at 0.1875 returns pitch-3 events only,
\* after the first recording exactly that one event, lookups at 0.0 and at
\* 0.75 return nothing, and after CLEAR a lookup at 0.1875 returns nothing.
C25_StoredAtThreeSixteenths ==
    /\ [](/\ quantization_delta = Unit \div 16
          /\ \A t \in DOMAIN recorded_notes :
                RecordedPitch3(recorded_notes, t) # << >>
                    => t = 3 * (Unit \div 16)
          /\ \A i \in 1..Len(EventsAt(recorded_notes, 3 * (Unit \div 16))) :
                EventsAt(recorded_notes, 3 * (Unit \div 16))[i]
                  = CopyWithTime(Message("note_on", 3), 3 * (Unit \div 16))
          /\ EventsAt(recorded_notes, 0) = << >>
          /\ EventsAt(recorded_notes, 3 * (Unit \div 4)) = << >>)
    /\ [][vars' # vars =>
            /\ ( /\ ListenForMidiMessages("note_on", 3)
                 /\ sequencer_mode = "RECORD"
                 /\ EventsAt(recorded_notes, 3 * (Unit \div 16)) = << >> )
               => EventsAt(recorded_notes', 3 * (Unit \div 16))
                    = << CopyWithTime(Message("note_on", 3),
                                      3 * (Unit \div 16)) >>
            /\ ConsumeKeyboardInput("CLEAR")
               => EventsAt(recorded_notes', 3 * (Unit \div 16)) = << >>]_vars

\* One NoteOn with pitch 3 recorded: it is at 0.1875.
C25_Witness ==
    /\ sequencer_mode = "RECORD"
    /\ CountNotes(recorded_notes) = 1
    /\ EventsAt(recorded_notes, 3 * (Unit \div 16))
          = << CopyWithTime(Message("note_on", 3), 3 * (Unit \div 16)) >>

\* ---------------------------------------------------------------- C28
\* C28: after any sequence of add_track, copy_track and delete_track with
\* valid indices the track list of the sampler's Sequencer is not empty and
\* selected_track is one of its Track objects; deleting the only track puts
\* a new empty Track in the list, which becomes the selected one.
C28_SelectedTrackListed ==
    /\ [](/\ Len(studio.tracks) >= 1
          /\ Len(studio.track_ids) = Len(studio.tracks)
          /\ \A i, j \in 1..Len(studio.track_ids) :
                studio.track_ids[i] = studio.track_ids[j] => i = j
          /\ \E i \in 1..Len(studio.track_ids) :
                studio.track_ids[i] = studio.selected_track)
    /\ [][(vars' # vars /\ Len(studio.tracks) = 1 /\ StudioDeleteTrack(0)) =>
                /\ studio'.tracks = << StudioNewTrack >>
                /\ studio'.track_ids[1] # studio.track_ids[1]
                /\ studio'.selected_track = studio'.track_ids[1]]_vars

\* The only track, holding a note, was deleted: the list holds one new empty
\* track, the selected one.
C28_Witness ==
    /\ studio.is_sequencing
    /\ studio.tracks = << StudioNewTrack >>
    /\ studio.track_ids = << 2 >>
    /\ studio.selected_track = 2

\* ---------------------------------------------------------------- C29
\* The Track objects whose callbacks the step cued.
StartedTracks ==
    { seq_clock_events'[e].track[1] :
        e \in { x \in DOMAIN seq_clock_events' :
                  /\ x >= seq_next_event_id
                  /\ seq_clock_events'[x].track # None } }

\* C29: when the sequencer callback advances playback to measure index m, the
\* tracks it starts are exactly the tracks[name][m] of the instrument names
\* with m < len(tracks[name]), each started once; a tick that does not begin
\* a measure starts none.
C29_StartsTracksOfMeasure ==
    [][vars' # vars =>
        \A id \in 1..MaxCues : SequencerClockCallback(id) =>
            LET invocations == seq_clock_events[id].invocations
                m == invocations \div track_length_in_measures
                of_measure == { tracks[name][m + 1] :
                                  name \in { x \in DOMAIN tracks :
                                               m < Len(tracks[x]) } }
            IN  IF invocations % track_length_in_measures = 0
                THEN /\ StartedTracks = of_measure
                     /\ seq_next_event_id' - seq_next_event_id
                           = Cardinality(of_measure)
                     /\ SeqToSet(playing_tracks') = of_measure
                ELSE /\ StartedTracks = {}
                     /\ seq_next_event_id' = seq_next_event_id]_vars

\* Measure 1 is playing: the second track of the one instrument that has
\* two, the other instrument being passed over.
C29_Witness ==
    /\ Len(tracks[InstrumentNames[1]]) = 2
    /\ Len(tracks[InstrumentNames[2]]) = 1
    /\ playing_tracks = << tracks[InstrumentNames[1]][2] >>
    /\ track_objects[playing_tracks[1]].clock_event_id # None
    /\ track_objects[playing_tracks[1]].clock_event_id[1]
          \in DOMAIN seq_clock_events

\* ---------------------------------------------------------------- C30
\* C30: a track with a queued callback is one of the tracks started for the
\* current measure, and the callback is the one it was started with; when a
\* measure is begun the callbacks of the tracks of the measure before are
\* cancelled first, so that every track callback queued after the step was
\* cued by it - also with tracks added or deleted between the measures.
C30_OnlyCurrentMeasureScheduled ==
    /\ [](\A e \in DOMAIN seq_clock_events :
            seq_clock_events[e].track # None =>
                /\ seq_clock_events[e].track[1] \in SeqToSet(playing_tracks)
                /\ track_objects[seq_clock_events[e].track[1]].clock_event_id
                      = Some(e))
    /\ [][vars' # vars =>
            \A id \in 1..MaxCues :
                ( /\ SequencerClockCallback(id)
                  /\ seq_clock_events[id].invocations
                        % track_length_in_measures = 0 )
                => \A e \in DOMAIN seq_clock_events' :
                      seq_clock_events'[e].track # None
                          => e >= seq_next_event_id]_vars

\* Measure 0 started the first track of both instruments (callbacks 2 and 3
\* beside the sequencer's 1); a track was added to one instrument and the
\* track of the other deleted; measure 1 plays the added track alone, with
\* callback 4.
C30_Witness ==
    /\ 1 \in DOMAIN seq_clock_events
    /\ seq_clock_events[1].track = None
    /\ seq_clock_events[1].invocations > track_length_in_measures
    /\ Len(playing_tracks) = 1
    /\ 4 \in DOMAIN seq_clock_events
    /\ seq_clock_events[4].track = Some(playing_tracks[1])
    /\ \E name \in Instruments :
          /\ Len(tracks[name]) = 2
          /\ playing_tracks[1] = tracks[name][2]
    /\ \E name \in Instruments : Len(tracks[name]) = 0

\* ---------------------------------------------------------------- C33
\* C33: whatever is typed into the drum machine's command loop, at most one
\* playback callback is queued on the clock, and clock_event_id is its id.
C33_AtMostOnePlaybackCallback ==
    /\ Cardinality(DOMAIN clock_events) <= 1
    /\ DOMAIN clock_events # {} =>
          clock_event_id # None /\ DOMAIN clock_events = { clock_event_id[1] }

C37_TrackLengthDefined ==
    /\ ComputeTrackLengthInMeasures(quantization) # None
    /\ track_length_in_measures
          = ComputeTrackLengthInMeasures(quantization)[1]
    /\ track_length_in_measures >= 1

\* ---------------------------------------------------------------- C38
\* The calls the menu makes with a name that may be no key of instruments, and a
\* track number that may be outside the list: the menu passes the number typed
\* minus one, and its validator lets 0 through, so -1 is among them.
NextCalls ==
    \/ \E name \in InstrumentKeys : AddTrack(name)
    \/ \E name \in InstrumentKeys, n \in (-1)..MaxTracks : DeleteTrack(name, n)
    \/ \E name \in InstrumentKeys, n \in (-1)..MaxTracks :
          SetSelectedTrackByTrackNumber(name, n)

SpecCalls == InitSeq /\ [][NextCalls]_vars

\* C38: add_track, delete_track and set_selected_track_by_track_number called
\* with a name that is no key of instruments, or with a track number outside
\* 0..len(tracks[name])-1, fail and leave the tracks map, the selected
\* instrument and the selected track as they were.
C38_InvalidCallChangesNothing ==
    [][vars' # vars =>
        /\ \A name \in InstrumentKeys \ Instruments :
              AddTrack(name) =>
                 /\ raised' # None
                 /\ tracks' = tracks
                 /\ selected_instrument' = selected_instrument
                 /\ selected_track' = selected_track
        /\ \A name \in InstrumentKeys, n \in (-1)..MaxTracks :
              ( /\ \/ name \notin Instruments
                   \/ n \notin 0..(Len(TracksSubscript(tracks, name)[name]) - 1)
                /\ \/ DeleteTrack(name, n)
                   \/ SetSelectedTrackByTrackNumber(name, n) ) =>
                 /\ raised' # None
                 /\ tracks' = tracks
                 /\ selected_instrument' = selected_instrument
                 /\ selected_track' = selected_track
      ]_vars

\* ---------------------------------------------------------------- C32
\* Strings given to the converter: every string of up to MaxTokenLength
\* characters out of digits, the slash and the letter T.
TokenCharacters == { "0", "1", "8", "/", "T" }

TokenStrings == UNION { [1..k -> TokenCharacters] : k \in 0..MaxTokenLength }

InitTokens ==
    /\ DrumMachineInit("class", {Tok_1_16})
    /\ SequencerInit(Tok_1_8)
    /\ StudioInit
    /\ SharedInit
    /\ MidiSynthInit("midi_synth")
    /\ \E token \in TokenStrings : arp = ArpProcess(ArpDefaults, token)

NextTokens == ArpConvert

SpecTokens == InitTokens /\ [][NextTokens]_vars

\* "<num>/<den>" or "<num>/<den>T" with a denominator other than 0.
WellFormedToken(token) ==
    LET body == IF Len(token) > 0 /\ token[Len(token)] = "T"
                THEN SubSeq(token, 1, Len(token) - 1)
                ELSE token
    IN  /\ Cardinality({ i \in 1..Len(body) : body[i] = "/" }) = 1
        /\ IsDigits(SubSeq(body, 1, SlashAt(body) - 1))
        /\ IsDigits(SubSeq(body, SlashAt(body) + 1, Len(body)))
        /\ ParseInt(SubSeq(body, SlashAt(body) + 1, Len(body))) # 0

\* C32: the converter rejects every token that is not "<num>/<den>" or
\* "<num>/<den>T" and every token with the denominator 0: no such token is
\* converted to a delta.
C32_MalformedTokenRejected ==
    ~WellFormedToken(arp.quantization) => arp.converted = None

\* ---------------------------------------------------------------- C31
\* Arrangement playback of the sampler's sequencer: notes are recorded, tracks
\* are added, playback is started and stopped from the menu, and the clock and
\* monitor threads run.
NextArrangement ==
    \/ StudioAddTrack
    \/ \E n \in 0..MaxTrackNotes : StudioSetSelectedTrackByTrackNumber(n)
    \/ StudioStartSequencing
    \/ \E note \in StudioPitches : StudioHandleNoteOn(note)
    \/ StudioStartPlayback
    \/ StudioStartPlaybackMonitorFirst
    \/ StudioStopPlayback
    \/ StudioMonitorClockCallback
    \/ \E id \in 1..MaxEvents : StudioSequencerClockCallback(id)

SpecArrangement == InitSeq /\ [][NextArrangement]_vars

\* C31: the tracks are played in list order from index 0, each for
\* SEQUENCER_STEPS consecutive ticks; after the tick on which the callback ends
\* at the end of the list, stop_playback runs, so that once no callback is queued
\* and no monitor thread is left the clock is stopped and playback_track_index
\* is 0.
C31_PlaysInOrderThenStops ==
    /\ [](( /\ DOMAIN studio.clock_events = {}
            /\ studio.monitor_threads = 0 ) =>
              ( /\ ~studio.clock_is_running
                /\ studio.playback_track_index = 0 ))
    /\ [][vars' # vars =>
            (\A id \in 1..MaxEvents :
               ( /\ StudioSequencerClockCallback(id)
                 /\ id \in DOMAIN studio'.clock_events ) =>
                    studio'.playing_track =
                       Some(studio.track_ids
                              [(studio.clock_events[id].invocations
                                   \div SEQUENCER_STEPS) + 1]))
       ]_vars

\* ---------------------------------------------------------------- C35
\* C35: a playback started after an earlier one has ended plays until the end
\* of the list or an explicit stop_playback: a queued playback callback leaves
\* the clock's queue only by the callback's own step at the end of the list or
\* by the stop_playback command.
C35_ReplayEndsAtEndOrStop ==
    [][( /\ vars' # vars
         /\ DOMAIN studio.clock_events # {}
         /\ DOMAIN studio'.clock_events = {} ) =>
              \/ StudioStopPlayback
              \/ \E id \in 1..MaxEvents :
                    /\ StudioSequencerClockCallback(id)
                    /\ studio.playback_track_index = Len(studio.tracks)
      ]_vars

\* ---------------------------------------------------------------- C36
\* Arrangement playback while the track list is edited from the menu.
NextEdits ==
    \/ StudioAddTrack
    \/ \E n \in 0..(MaxTracks - 1) : StudioCopyTrack(n)
    \/ \E n \in 0..(MaxTracks - 1) : StudioDeleteTrack(n)
    \/ StudioStartSequencing
    \/ \E note \in StudioPitches : StudioHandleNoteOn(note)
    \/ StudioStartPlayback
    \/ StudioStopPlayback
    \/ StudioMonitorClockCallback
    \/ \E id \in 1..MaxEvents : StudioSequencerClockCallback(id)

SpecEdits == InitSeq /\ [][NextEdits]_vars

\* C36: however ticks interleave with add_track, copy_track and delete_track, a
\* tick that takes the next track reads tracks at an index inside the list, and
\* the tick that finds playback_track_index at the end of the list ends the
\* playback.
C36_TickReadsInsideList ==
    [][vars' # vars =>
         (\A id \in 1..MaxEvents :
             ( /\ StudioSequencerClockCallback(id)
               /\ studio.clock_events[id].invocations % SEQUENCER_STEPS = 0 ) =>
                  IF studio.playback_track_index = Len(studio.tracks)
                  THEN id \notin DOMAIN studio'.clock_events
                  ELSE studio.playback_track_index \in 0..(Len(studio.tracks) - 1))
      ]_vars

\* ---------------------------------------------------------------- C39
\* The MIDI synth, either script, under note_on and note_off messages.
InitSynth ==
    /\ DrumMachineInit("class", {Tok_1_16})
    /\ SequencerInit(Tok_1_8)
    /\ StudioInit
    /\ SharedInit
    /\ ArpInit(ArpDefaults)
    /\ \E script \in { "midi_synth", "midi_synth_effects" } : MidiSynthInit(script)

NextSynth ==
    \/ \E type \in { "note_on", "note_off" }, note \in SynthPitches :
          MidiSynthHandleMidiMessage(type, note)
    \/ \E type \in { "note_on", "note_off" }, note \in SynthPitches :
          EffectsHandleMidiMessage(type, note)

SpecSynth == InitSynth /\ [][NextSynth]_vars

\* C39: every synth started and not yet released is the value of the notes map
\* under its pitch, so that a note_off for that pitch releases it.
C39_SoundingSynthHeld ==
    \A n \in 1..Len(synths.nodes) :
       synths.nodes[n].gate = 1 =>
          /\ synths.nodes[n].note \in DOMAIN synths.notes
          /\ synths.notes[synths.nodes[n].note] = n
====
